---- MODULE Spec2Model ----
(***************************************************************************)
(* Receipt detection of receipt-genie (backend/services/                   *)
(* receipt_detector.py): detect_receipts and the stages it calls.          *)
(*                                                                         *)
(* An image buffer is modelled by its shape [h, w].  A contour is          *)
(* modelled by what the code reads of it: its bounding rectangle           *)
(* (x, y, w, h) as cv2.boundingRect returns it and area2, twice the value  *)
(* of cv2.contourArea (contourArea is a multiple of 0.5, so area2 is an    *)
(* integer).  Float comparisons of ratios are written as the equivalent    *)
(* integer inequalities; where the double product of the code rounds       *)
(* differently from the real product, the rounding is modelled.            *)
(***************************************************************************)
EXTENDS Integers, Sequences, FiniteSets, TLC

VARIABLES
    pc,                 \* position in detect_receipts
    image_path,         \* the argument of detect_receipts
    readable,           \* whether cv2.imread decodes the file
    img,                \* shape of the loaded image
    preprocessed,       \* shape after preprocess_image
    lines,              \* deviations (degrees) of the lines cv2.HoughLines found
    deskewed,           \* shape after deskew
    warped,             \* whether deskew returned the output of cv2.warpAffine
    oriented,           \* shape after fix_orientation
    rotations,          \* number of 90 degree rotations fix_orientation applied
    found,              \* contours cv2.findContours returned
    contours,           \* valid_contours returned by extract_contours
    rejected_contours,  \* rejected_contours log of extract_contours
    crops_dir,          \* whether TEMP_DIR/crops exists
    files,              \* paths of the files that exist on disk
    sorted_contours,    \* result of sort_contours_by_position
    idx,                \* 1-based position of the for loop over sorted_contours
    slices,             \* slices of the region being persisted
    slice_idx,          \* 1-based position of the loop over slices
    cropped_paths,      \* cropped_paths of detect_receipts
    rejected_regions,   \* rejected_regions of detect_receipts
    result,             \* value returned to the caller
    raised,             \* where an exception was raised and caught by the outer handler
    escaped,            \* whether an exception left detect_receipts
    entered,            \* loop positions whose body was entered
    saved,              \* the calls of save_crop that returned, in order
    sliced,             \* what slice_receipt_region returned, per loop position
    others,             \* crop paths written by other invocations of detect_receipts
    pipeline            \* state of process_pdf_pipeline, the caller of detect_receipts

vars == <<pc, image_path, readable, img, preprocessed, lines, deskewed, warped, oriented,
          rotations, found, contours, rejected_contours, crops_dir, files,
          sorted_contours, idx, slices, slice_idx, cropped_paths,
          rejected_regions, result, raised, escaped, entered, saved, sliced, others, pipeline>>

NoImage == [h |-> 0, w |-> 0]
NoResult == <<"no result">>

\* process_pdf_pipeline has not been called
NoPipeline == [pc |-> "idle"]

(***************************************************************************)
(* Bounds of the model.                                                    *)
(***************************************************************************)
MaxContours == 2      \* contours cv2.findContours returns in one run
MaxLines == 2         \* lines cv2.HoughLines returns in one run

Shape(h, w) == [h |-> h, w |-> w]

Min(a, b) == IF a < b THEN a ELSE b
Max(a, b) == IF a > b THEN a ELSE b

\* s[lo] + ... + s[hi]
RECURSIVE SumRows(_, _, _)
SumRows(s, lo, hi) ==
    IF hi < lo THEN 0
    ELSE IF hi = lo THEN s[lo]
    ELSE SumRows(s, lo, (lo + hi) \div 2) + SumRows(s, (lo + hi) \div 2 + 1, hi)

(***************************************************************************)
(* extract_contours: the scoring and acceptance of one contour.            *)
(***************************************************************************)
MinHeightPct == 1        \* min_height_ratio = 0.01
MinWidthPct == 3         \* min_width_ratio = 0.03
MinAspectTenths == 3     \* min_aspect_ratio = 0.3
MinAreaPerMille == 1     \* min_area_ratio = 0.001
MaxAreaTwentieths == 19  \* area_ratio > 0.95, 0.95 = 19 / 20
ReasonablePx == 50       \* ch > 50 and cw > 50

\* area_ratio > n / d, with area_ratio = contourArea / (h * w) and area2 = 2 * contourArea
AreaRatioAbove(c, H, W, n, d) == d * c.area2 > 2 * n * H * W
\* variant: half the ratio
AreaRatioBelowMutHalf(c, H, W, n, d) == d * c.area2 < n * H * W

\* area_ratio < n / d
AreaRatioBelow(c, H, W, n, d) == d * c.area2 < 2 * n * H * W

\* ch > h * min_height_ratio
HeightCriterion(c, H, W) == 100 * c.h > MinHeightPct * H
\* cw > w * min_width_ratio
WidthCriterion(c, H, W) == 100 * c.w > MinWidthPct * W
\* aspect_ratio = ch / cw if cw > 0 else 0; aspect_ratio > min_aspect_ratio
AspectCriterion(c, H, W) == c.w > 0 /\ 10 * c.h > MinAspectTenths * c.w
\* area_ratio > min_area_ratio
AreaCriterion(c, H, W) == AreaRatioAbove(c, H, W, MinAreaPerMille, 1000)
\* area_ratio > 0.95
AreaTooLarge(c, H, W) == AreaRatioAbove(c, H, W, MaxAreaTwentieths, 20)

\* rejection_reasons, in the order the code appends them
RejectionReasons(c, H, W) ==
    (IF HeightCriterion(c, H, W) THEN <<>> ELSE <<"height too small">>)
    \o (IF WidthCriterion(c, H, W) THEN <<>> ELSE <<"width too small">>)
    \o (IF AspectCriterion(c, H, W) THEN <<>> ELSE <<"aspect ratio too low">>)
    \o (IF AreaCriterion(c, H, W) THEN <<>> ELSE <<"area too small">>)
    \o (IF AreaTooLarge(c, H, W) THEN <<"area too large">> ELSE <<>>)

\* variant: the area criterion counts twice
ScoreMutAreaTwice(c, H, W) ==
    IF AreaTooLarge(c, H, W) THEN 0 ELSE
    (IF HeightCriterion(c, H, W) THEN 1 ELSE 0)
    + (IF WidthCriterion(c, H, W) THEN 1 ELSE 0)
    + (IF AspectCriterion(c, H, W) THEN 1 ELSE 0)
    + (IF AreaCriterion(c, H, W) THEN 2 ELSE 0)

\* score: one point per criterion met, reset to 0 when the area is too large
Score(c, H, W) ==
    IF AreaTooLarge(c, H, W)
    THEN 0
    ELSE (IF HeightCriterion(c, H, W) THEN 1 ELSE 0)
         + (IF WidthCriterion(c, H, W) THEN 1 ELSE 0)
         + (IF AspectCriterion(c, H, W) THEN 1 ELSE 0)
         + (IF AreaCriterion(c, H, W) THEN 1 ELSE 0)

\* is_reasonably_sized = ch > 50 and cw > 50
IsReasonablySized(c) == c.h > ReasonablePx /\ c.w > ReasonablePx

\* variant: the size and area tests only help a contour that scored
AcceptedMutAnd(c, H, W) ==
    /\ Score(c, H, W) >= 1
    /\ (AreaRatioAbove(c, H, W, 1, 2000) \/ IsReasonablySized(c))

\* if score >= 1 or area_ratio > 0.0005 or is_reasonably_sized (0.0005 = 1 / 2000)
Accepted(c, H, W) ==
    \/ Score(c, H, W) >= 1
    \/ AreaRatioAbove(c, H, W, 1, 2000)
    \/ IsReasonablySized(c)

\* one entry of rejected_contours
RejectedEntry(i, c, H, W) ==
    [index |-> i, bbox |-> <<c.x, c.y, c.w, c.h>>, area2 |-> c.area2,
     aspect |-> <<c.h, c.w>>, score |-> Score(c, H, W),
     reasons |-> RejectionReasons(c, H, W)]

RECURSIVE ValidFrom(_, _, _, _)
ValidFrom(cs, i, H, W) ==
    IF i > Len(cs) THEN <<>>
    ELSE (IF Accepted(cs[i], H, W) THEN <<cs[i]>> ELSE <<>>)
         \o ValidFrom(cs, i + 1, H, W)

RECURSIVE RejectedFrom(_, _, _, _)
RejectedFrom(cs, i, H, W) ==
    IF i > Len(cs) THEN <<>>
    ELSE (IF Accepted(cs[i], H, W) THEN <<>> ELSE <<RejectedEntry(i, cs[i], H, W)>>)
         \o RejectedFrom(cs, i + 1, H, W)

(***************************************************************************)
(* deskew.  A line is modelled by its deviation angle = degrees(theta) - 90 *)
(* in whole degrees; medians are kept doubled (Median2 = 2 * np.median).   *)
(***************************************************************************)
MaxLineDeviation == 45   \* abs(angle) < 45
MinSkewAngle == 2        \* abs(median_angle) > 2
TrigScale == 1000 * 1000     \* sines and cosines below are in millionths

Abs(n) == IF n < 0 THEN -n ELSE n

\* if abs(angle) < 45: angles.append(angle)
ValidAngles(ls) == SelectSeq(ls, LAMBDA a : Abs(a) < MaxLineDeviation)

RECURSIVE InsertSorted(_, _)
InsertSorted(s, a) ==
    IF s = <<>> THEN <<a>>
    ELSE IF a < Head(s) THEN <<a>> \o s
    ELSE <<Head(s)>> \o InsertSorted(Tail(s), a)

RECURSIVE SortInts(_)
SortInts(s) == IF s = <<>> THEN <<>> ELSE InsertSorted(SortInts(Tail(s)), Head(s))

\* variant: twice the mean of the angles, rounded down
Median2MutMean(angles) == (2 * SumRows(angles, 1, Len(angles))) \div Len(angles)

\* 2 * np.median(angles), angles non-empty
Median2(angles) ==
    LET s == SortInts(angles)
        n == Len(s)
    IN  IF n % 2 = 1 THEN 2 * s[(n + 1) \div 2]
        ELSE s[n \div 2] + s[n \div 2 + 1]

\* |sin| and |cos| of 0, 0.5, 1, ..., 44.5 degrees, in millionths
SinTable ==
    <<0, 8727, 17452, 26177, 34899, 43619, 52336, 61049, 69756, 78459,
      87156, 95846, 104528, 113203, 121869, 130526, 139173, 147809, 156434, 165048,
      173648, 182236, 190809, 199368, 207912, 216440, 224951, 233445, 241922, 250380,
      258819, 267238, 275637, 284015, 292372, 300706, 309017, 317305, 325568, 333807,
      342020, 350207, 358368, 366501, 374607, 382683, 390731, 398749, 406737, 414693,
      422618, 430511, 438371, 446198, 453990, 461749, 469472, 477159, 484810, 492424,
      500000, 507538, 515038, 522499, 529919, 537300, 544639, 551937, 559193, 566406,
      573576, 580703, 587785, 594823, 601815, 608761, 615661, 622515, 629320, 636078,
      642788, 649448, 656059, 662620, 669131, 675590, 681998, 688355, 694658, 700909>>

CosTable ==
    <<1000000, 999962, 999848, 999657, 999391, 999048, 998630, 998135, 997564, 996917,
      996195, 995396, 994522, 993572, 992546, 991445, 990268, 989016, 987688, 986286,
      984808, 983255, 981627, 979925, 978148, 976296, 974370, 972370, 970296, 968148,
      965926, 963630, 961262, 958820, 956305, 953717, 951057, 948324, 945519, 942641,
      939693, 936672, 933580, 930418, 927184, 923880, 920505, 917060, 913545, 909961,
      906308, 902585, 898794, 894934, 891007, 887011, 882948, 878817, 874620, 870356,
      866025, 861629, 857167, 852640, 848048, 843391, 838671, 833886, 829038, 824126,
      819152, 814116, 809017, 803857, 798636, 793353, 788011, 782608, 777146, 771625,
      766044, 760406, 754710, 748956, 743145, 737277, 731354, 725374, 719340, 713250>>

\* cos = np.abs(M[0, 0]) and sin = np.abs(M[0, 1]) for the angle m2 / 2 degrees
SinCos(m2) == [sin |-> SinTable[Abs(m2) + 1], cos |-> CosTable[Abs(m2) + 1]]

\* variant: the canvas of the turned image without the sine terms
RotatedShapeMutNoSin(s, m2) ==
    [h |-> (s.h * SinCos(m2).cos) \div TrigScale,
     w |-> (s.w * SinCos(m2).cos) \div TrigScale]

\* new_w = int((h * sin) + (w * cos)); new_h = int((h * cos) + (w * sin))
RotatedShape(s, m2) ==
    LET t == SinCos(m2)
    IN  [h |-> (s.h * t.cos + s.w * t.sin) \div TrigScale,
         w |-> (s.h * t.sin + s.w * t.cos) \div TrigScale]

\* variant: a median of exactly 2 degrees rotates as well
DeskewRotatesMutGeq(ls) ==
    /\ Len(ls) > 0
    /\ ValidAngles(ls) # <<>>
    /\ Abs(Median2(ValidAngles(ls))) >= 2 * MinSkewAngle

\* whether deskew rotates: lines found, a valid angle left, abs(median_angle) > 2
DeskewRotates(ls) ==
    /\ Len(ls) > 0
    /\ ValidAngles(ls) # <<>>
    /\ Abs(Median2(ValidAngles(ls))) > 2 * MinSkewAngle

deskew(image, ls) ==
    IF DeskewRotates(ls) THEN RotatedShape(image, Median2(ValidAngles(ls))) ELSE image

(***************************************************************************)
(* fix_orientation.  vhigh is the outcome of                               *)
(* v_variance > h_variance * 1.5, computed on the buffer as it is after    *)
(* the first step.  Returns the shape and the number of rotations.         *)
(***************************************************************************)
Rotate90(s) == [h |-> s.w, w |-> s.h]

\* if h < w * 0.8
LooksLandscape(s) == 5 * s.h < 4 * s.w

\* variant: without the final check
fix_orientationMutNoFinal(image, vhigh) ==
    LET a == IF LooksLandscape(image) THEN Rotate90(image) ELSE image
        na == IF LooksLandscape(image) THEN 1 ELSE 0
        fb == vhigh /\ a.h < a.w
    IN  [shape |-> IF fb THEN Rotate90(a) ELSE a,
         rotations |-> IF fb THEN na + 1 ELSE na]

\* variant: the final check reads h and w as they were before the density check
fix_orientationMutStale(image, vhigh) ==
    LET a == IF LooksLandscape(image) THEN Rotate90(image) ELSE image
        na == IF LooksLandscape(image) THEN 1 ELSE 0
        fb == vhigh /\ a.h < a.w
        b == IF fb THEN Rotate90(a) ELSE a
        nb == IF fb THEN na + 1 ELSE na
        fc == a.h <= a.w
    IN  [shape |-> IF fc THEN Rotate90(b) ELSE b,
         rotations |-> IF fc THEN nb + 1 ELSE nb]

\* variant: the density check does not look at the shape
fix_orientationMutDensityOnly(image, vhigh) ==
    LET a == IF LooksLandscape(image) THEN Rotate90(image) ELSE image
        na == IF LooksLandscape(image) THEN 1 ELSE 0
        b == IF vhigh THEN Rotate90(a) ELSE a
        nb == IF vhigh THEN na + 1 ELSE na
        fc == b.h <= b.w
    IN  [shape |-> IF fc THEN Rotate90(b) ELSE b,
         rotations |-> IF fc THEN nb + 1 ELSE nb]

fix_orientation(image, vhigh) ==
    LET a == IF LooksLandscape(image) THEN Rotate90(image) ELSE image
        na == IF LooksLandscape(image) THEN 1 ELSE 0
        fb == vhigh /\ a.h < a.w
        b == IF fb THEN Rotate90(a) ELSE a
        nb == IF fb THEN na + 1 ELSE na
        fc == b.h <= b.w
    IN  [shape |-> IF fc THEN Rotate90(b) ELSE b,
         rotations |-> IF fc THEN nb + 1 ELSE nb]

(***************************************************************************)
(* sort_contours_by_position: sorted() by the y of the bounding box,       *)
(* stable.                                                                  *)
(***************************************************************************)
RECURSIVE InsertByY(_, _)
InsertByY(s, c) ==
    IF s = <<>> THEN <<c>>
    ELSE IF c.y < Head(s).y THEN <<c>> \o s
    ELSE <<Head(s)>> \o InsertByY(Tail(s), c)

RECURSIVE SortFromBack(_, _)
SortFromBack(cs, n) ==
    IF n = 0 THEN <<>> ELSE InsertByY(SortFromBack(cs, n - 1), cs[n])

\* variant: the contours are left in the order findContours gave them
sort_contours_by_positionMutNoSort(cs) == cs

sort_contours_by_position(cs) == SortFromBack(cs, Len(cs))

(***************************************************************************)
(* slice_receipt_region.  proj is the horizontal projection of the region  *)
(* (one row sum per row, a natural number); rows are numbered from 0 as in *)
(* the code, so row i is proj[i + 1].  With m = max(proj) > 0 the code     *)
(* compares proj[i] / m with mean(proj / m) * 0.2, that is                 *)
(* 5 * h * proj[i] with sum(proj); with m = 0 both sides are 0.            *)
(* A slice is the pair of its first row and the row after its last.        *)
(***************************************************************************)
EdgeMarginPct == 5       \* s > h * 0.05 and s < h * 0.95
MinSlicePct == 10        \* split - start > h * 0.10
MinDistanceDiv == 10     \* min_distance = h // 10

\* above_threshold[i] = horizontal_proj[i] > threshold
AboveThreshold(proj, total, i) == 5 * Len(proj) * proj[i + 1] > total
\* horizontal_proj[i] < threshold
BelowThreshold(proj, total, i) == 5 * Len(proj) * proj[i + 1] < total

\* the state of the for loop over above_threshold before its first row
ScanStart == [in_text |-> FALSE, text_start |-> 0, splits |-> <<>>]

\* the body of "for i, is_text in enumerate(above_threshold)" at row i
ScanRow(proj, total, st, i) ==
    IF AboveThreshold(proj, total, i) /\ ~st.in_text
    THEN [in_text |-> TRUE,
          text_start |-> i,
          splits |-> IF st.text_start > 0
                     THEN Append(st.splits, (st.text_start + i) \div 2)
                     ELSE st.splits]
    ELSE IF ~AboveThreshold(proj, total, i) /\ st.in_text
    THEN [st EXCEPT !.in_text = FALSE]
    ELSE st

\* the loop run over the rows lo .. hi - 1 in order, from the state st: the
\* first half of the rows, then the second half from the state the first left
\* (text_start is never negative: the test makes the evaluation of the first
\* half precede that of the second, which keeps the evaluation shallow)
RECURSIVE RunScan(_, _, _, _, _)
RunScan(proj, total, st, lo, hi) ==
    IF hi <= lo THEN st
    ELSE IF hi = lo + 1 THEN ScanRow(proj, total, st, lo)
    ELSE LET first == RunScan(proj, total, st, lo, (lo + hi) \div 2)
         IN  IF first.text_start >= 0
             THEN RunScan(proj, total, first, (lo + hi) \div 2, hi)
             ELSE first

\* whether row i is a valley: below the threshold and lower than both neighbours
IsValley(proj, total, i) ==
    /\ BelowThreshold(proj, total, i)
    /\ proj[i + 1] < proj[i]
    /\ proj[i + 1] < proj[i + 2]

\* the valleys among the rows lo .. hi - 1, in order
RECURSIVE LocalMinima(_, _, _, _)
LocalMinima(proj, total, lo, hi) ==
    IF hi <= lo THEN <<>>
    ELSE IF hi = lo + 1 THEN (IF IsValley(proj, total, lo) THEN <<lo>> ELSE <<>>)
    ELSE LocalMinima(proj, total, lo, (lo + hi) \div 2)
         \o LocalMinima(proj, total, (lo + hi) \div 2, hi)

\* variant: no minimum is suppressed
FilterCloseMutKeepAll(kept, rest, min_distance) == kept \o rest

\* filtered_splits, given the splits kept so far and those left to visit
RECURSIVE FilterClose(_, _, _)
FilterClose(kept, rest, min_distance) ==
    IF rest = <<>> THEN kept
    ELSE IF Head(rest) - kept[Len(kept)] >= min_distance
    THEN FilterClose(Append(kept, Head(rest)), Tail(rest), min_distance)
    ELSE FilterClose(kept, Tail(rest), min_distance)

\* splits before the edge filter
CandidateSplits(proj) ==
    LET total == SumRows(proj, 1, Len(proj))
        scan == RunScan(proj, total, ScanStart, 0, Len(proj)).splits
        minima == LocalMinima(proj, total, 1, Len(proj) - 1)
    IN  IF Len(scan) # 0 THEN scan
        ELSE IF Len(minima) > 1
        THEN FilterClose(<<minima[1]>>, Tail(minima), Len(proj) \div MinDistanceDiv)
        ELSE minima

\* splits = [s for s in splits if s > h * 0.05 and s < h * 0.95]
EdgeFilter(splits, h) ==
    SelectSeq(splits, LAMBDA s : /\ 100 * s > EdgeMarginPct * h
                                 /\ 100 * s < (100 - EdgeMarginPct) * h)

RECURSIVE CutAtMutMovesStart(_, _, _, _, _)

\* variant: every split cuts, however short the slice
CutAtMutNoMinimum(splits, start, h, w, acc) ==
    IF splits = <<>> THEN [slices |-> acc, start |-> start]
    ELSE [slices |-> acc \o [k \in 1..Len(splits) |->
                                [from |-> IF k = 1 THEN start ELSE splits[k - 1],
                                 to |-> splits[k]]],
          start |-> splits[Len(splits)]]

\* variant: a split that is passed over still moves the start
CutAtMutMovesStart(splits, start, h, w, acc) ==
    IF splits = <<>> THEN [slices |-> acc, start |-> start]
    ELSE LET rest == CutAtMutMovesStart(Tail(splits), Head(splits), h, w, <<>>)
         IN  [slices |-> (IF 100 * (Head(splits) - start) > MinSlicePct * h
                          THEN Append(acc, [from |-> start, to |-> Head(splits)])
                          ELSE acc) \o rest.slices,
              start |-> rest.start]

\* the for loop over sorted(splits)
RECURSIVE CutAt(_, _, _, _, _)
CutAt(splits, start, h, w, acc) ==
    IF splits = <<>> THEN [slices |-> acc, start |-> start]
    ELSE IF 100 * (Head(splits) - start) > MinSlicePct * h
    THEN CutAt(Tail(splits), Head(splits), h, w,
               IF (Head(splits) - start) * w > 0
               THEN Append(acc, [from |-> start, to |-> Head(splits)])
               ELSE acc)
    ELSE CutAt(Tail(splits), start, h, w, acc)

\* variant: a region in which no split was found is cut in the middle
slice_receipt_regionMutHalves(proj, w) ==
    LET h == Len(proj)
        cut == CutAt(SortInts(EdgeFilter(CandidateSplits(proj), h)), 0, h, w, <<>>)
    IN  IF cut.slices = <<>>
        THEN <<[from |-> 0, to |-> h \div 2], [from |-> h \div 2, to |-> h]>>
        ELSE Append(cut.slices, [from |-> cut.start, to |-> h])

\* region.shape[1] is w; a slice keeps every column, its size is rows * w
slice_receipt_region(proj, w) ==
    LET h == Len(proj)
        cut == CutAt(SortInts(EdgeFilter(CandidateSplits(proj), h)), 0, h, w, <<>>)
        last == IF 100 * (h - cut.start) > MinSlicePct * h /\ (h - cut.start) * w > 0
                THEN <<[from |-> cut.start, to |-> h]>>
                ELSE <<>>
        all == cut.slices \o last
    IN  IF Len(all) = 0 THEN <<[from |-> 0, to |-> h]>> ELSE all

\* slice_img.size
SliceSize(s, w) == (s.to - s.from) * w

\* the projection of a region of h rows whose rows repeat the pattern pat in
\* Len(pat) bands of equal height
Stretch(pat, h) == [i \in 1..h |-> pat[((i - 1) * Len(pat)) \div h + 1]]

(***************************************************************************)
(* Paths.  A path is a directory and a file name; a file name is the       *)
(* sequence of the pieces the code joins, so that two paths are equal      *)
(* exactly when the strings are.                                           *)
(***************************************************************************)
CropsDir == "TEMP_DIR/crops"     \* settings.TEMP_DIR / "crops"

\* image_path.stem
Stem(p) == p.name[1]

\* base names passed to save_crop; i and k are the 0-based idx and slice_idx
RegionBase(p, i) == <<Stem(p), "_region_", i>>
SliceBase(p, i, k) == <<Stem(p), "_region_", i, "_slice_", k>>

\* crop_path of save_crop: output_dir / f"{base_name}_{unique_id}.png"
CropPath(base_name, unique_id) ==
    [dir |-> CropsDir, name |-> base_name \o <<"_", unique_id, ".png">>]

\* what cv2.imwrite does to the disk: the file is there when it returns True
FilesAfterWrite(fs, path, ok) == IF ok THEN fs \cup {path} ELSE fs

(***************************************************************************)
(* Inputs.                                                                  *)
(***************************************************************************)
\* the page image handed over by the caller, in the upload directory or in
\* the crops directory itself
InputPaths ==
    {[dir |-> d, name |-> <<"page_1", ".png">>] : d \in {"uploads", CropsDir}}

\* shapes (h, w) of the input images
ImageShapes == {Shape(200, 150), Shape(60, 90), Shape(90, 60)}

\* deviations of the lines HoughLines may report
LineAngles == {0, 3, 60}

RECURSIVE SeqsUpTo(_, _)
SeqsUpTo(S, n) ==
    IF n = 0 THEN {<<>>}
    ELSE LET shorter == SeqsUpTo(S, n - 1)
         IN  shorter \cup {Append(s, e) : s \in {t \in shorter : Len(t) = n - 1}, e \in S}

\* the sequences of at most n different elements of S
DistinctSeqsUpTo(S, n) ==
    {s \in SeqsUpTo(S, n) : \A j, k \in 1..Len(s) : s[j] = s[k] => j = k}

\* values of str(uuid.uuid4())[:8]
Uids == {"1f0c2a9e"}

\* a contour with bounding rectangle (x, y, w, h) and twice its area
Contour(x, y, w, h, area2) == [x |-> x, y |-> y, w |-> w, h |-> h, area2 |-> area2]

\* the largest 2 * contourArea of a contour whose points span w by h pixels
MaxArea2(w, h) == 2 * (w - 1) * (h - 1)

\* the contours findContours may return on a page of H by W pixels
PageContours(H, W) ==
    { Contour(0, 0, 1, 1, 0),
      Contour(0, 1, 5, 1, 0),
      Contour(0, 0, W, H, MaxArea2(W, H)),
      Contour(0, 0, W \div 2, (7 * H) \div 10, MaxArea2(W \div 2, (7 * H) \div 10)),
      Contour(0, 2, W \div 2, (7 * H) \div 10 + 1, MaxArea2(W \div 2, (7 * H) \div 10 + 1)),
      Contour(W \div 2, H \div 2, W \div 2, H \div 4, MaxArea2(W \div 2, H \div 4)) }

\* row projections of a tall region, as bands of equal height
ProjectionPatterns == {<<1>>, <<0>>, <<1, 0, 1>>, <<0, 1, 0, 1>>}

\* the projection of h rows (numbered from 0) whose value is hi on the rows
\* of the bands (pairs <<first row, row after the last>>) and lo elsewhere
Profile(h, bands, hi, lo) ==
    [i \in 1..h |-> IF \E b \in bands : b[1] <= i - 1 /\ i - 1 < b[2] THEN hi ELSE lo]

\* a row given as <<percent of the height, rows>>, in a region of h rows
RowAt(m, h) == (m[1] * h) \div 100 + m[2]

\* a row projection described independently of the height of the region:
\* a pattern of equal bands, or bands between rows given as for RowAt
\* and single rows, the dips, whose value is 0
PatternProfile(pat) == [pat |-> pat, bands |-> {}, hi |-> 0, lo |-> 0, dips |-> {}]
BandProfile(bands, hi, lo) ==
    [pat |-> <<>>, bands |-> bands, hi |-> hi, lo |-> lo, dips |-> {}]
DipProfile(bands, hi, lo, dips) ==
    [pat |-> <<>>, bands |-> bands, hi |-> hi, lo |-> lo, dips |-> dips]

\* the projection of a region of h rows that the description d stands for
ProjectionOf(d, h) ==
    IF d.pat # <<>>
    THEN Stretch(d.pat, h)
    ELSE LET rows == Profile(h, {<<RowAt(b[1], h), RowAt(b[2], h)>> : b \in d.bands},
                             d.hi, d.lo)
             zero == {RowAt(m, h) : m \in d.dips}
         IN  [i \in 1..h |-> IF i - 1 \in zero THEN 0 ELSE rows[i]]

\* the row projections of the tall regions of a page
RegionProfiles == {PatternProfile(pat) : pat \in ProjectionPatterns}

\* every row has the same value
UniformProfiles == {BandProfile({}, v, v) : v \in {0, 1, 7}}

\* m moved down by p percent of the height
Below(m, p) == <<m[1] + p, m[2]>>

\* two bands and a gap between them: the first band starts at the first
\* row, at the second or at 15% of the height and takes 10% or 25% of the
\* height, the gap 5%, 20% or 40%, the second band 10% or all that is left
TwoBandProfiles ==
    UNION { UNION { UNION { UNION {
        { BandProfile({<<s1, e1>>, <<s2, e2>>}, v[1], v[2]) :
            v \in {<<1, 0>>, <<20, 1>>} } :
        e2 \in {e \in {Below(s2, 10), <<100, 0>>} : e[1] < 100 \/ e[2] = 0} } :
        s2 \in {Below(e1, 5), Below(e1, 20), Below(e1, 40)} } :
        e1 \in {Below(s1, 10), Below(s1, 25)} } :
        s1 \in {<<0, 0>>, <<0, 1>>, <<15, 0>>} }

\* text everywhere but for one row, or for one row and the first row
ValleyProfiles ==
    { BandProfile({<<s, v>>, <<<<v[1], v[2] + 1>>, <<100, 0>>>>}, 1, 0) :
        s \in {<<0, 0>>, <<0, 1>>}, v \in {<<0, 3>>, <<50, 0>>, <<92, 0>>} }

\* three bands
ThreeBandProfiles ==
    { BandProfile({<<s, <<20, 0>>>>, <<<<35, 0>>, <<55, 0>>>>, <<<<75, 0>>, <<100, 0>>>>},
                  1, 0) : s \in {<<0, 0>>, <<0, 1>>} }

\* three bands whose first rows are close to each other and to the top
CloseBandProfiles ==
    { BandProfile({<<<<0, 1>>, <<6, 0>>>>, <<<<12, 0>>, <<16, 0>>>>, <<<<20, 0>>, e>>}, 1, 0) :
        e \in {<<60, 0>>, <<100, 0>>} }

\* one strong band over the upper half, and below it faint rows with two
\* or three dips a few rows apart
DipProfiles ==
    { DipProfile({<<s, <<50, 0>>>>}, 100, 1, dips) :
        s \in {<<0, 0>>, <<0, 1>>},
        dips \in { {<<57, 0>>, <<57, 10>>, <<57, 15>>},
                   {<<57, 0>>, <<57, 4>>},
                   {<<57, 0>>, <<57, 1>>, <<57, 30>>} } }

BandProfiles ==
    UniformProfiles \cup TwoBandProfiles \cup ValleyProfiles \cup ThreeBandProfiles
        \cup CloseBandProfiles \cup DipProfiles

(***************************************************************************)
(* detect_receipts.                                                        *)
(***************************************************************************)
MinAreaPerMilleCrop == 2    \* area_ratio < 0.002
SliceHeightPct == 70        \* h > oriented.shape[0] * 0.70

\* the largest power of two that is at most n, for n >= 1
RECURSIVE Pow2Floor(_)
Pow2Floor(n) == IF n < 2 THEN 1 ELSE 2 * Pow2Floor(n \div 2)

\* 0.70 is the double 0.699999999999999955...; the double product H * 0.70
\* is below the integer v = 7 * H / 10 exactly when v's significand exceeds
\* 1.75 (H = 90, 170, 180, 330, ...), and equals v for every other multiple
\* of 10
ProductBelowSeventy(H) ==
    /\ (SliceHeightPct * H) % 100 = 0
    /\ 4 * ((SliceHeightPct * H) \div 100) > 7 * Pow2Floor((SliceHeightPct * H) \div 100)

\* variant: no region is ever sliced
NeedsSlicingMutNever(h, H) == FALSE

\* if h > oriented.shape[0] * 0.70
NeedsSlicing(h, H) ==
    \/ 100 * h > SliceHeightPct * H
    \/ 100 * h = SliceHeightPct * H /\ ProductBelowSeventy(H)

\* the fallback: return [str(image_path)]
Fallback(p) == <<p>>

\* one entry of rejected_regions; contour is idx + 1
Rejection(i, reason) == [contour |-> i, reason |-> reason]

Init ==
    /\ pc = "load"
    /\ image_path \in InputPaths
    /\ readable \in BOOLEAN
    /\ files \in {{image_path}, {}}
    /\ readable => image_path \in files
    /\ img = NoImage
    /\ preprocessed = NoImage
    /\ lines = <<>>
    /\ deskewed = NoImage
    /\ warped = FALSE
    /\ oriented = NoImage
    /\ rotations = 0
    /\ found = <<>>
    /\ contours = <<>>
    /\ rejected_contours = <<>>
    /\ crops_dir = FALSE
    /\ sorted_contours = <<>>
    /\ idx = 0
    /\ slices = <<>>
    /\ slice_idx = 0
    /\ cropped_paths = <<>>
    /\ rejected_regions = <<>>
    /\ result = NoResult
    /\ raised = "none"
    /\ escaped = FALSE
    /\ entered = {}
    /\ saved = <<>>
    /\ sliced = {}
    /\ others = {}
    /\ pipeline = NoPipeline

\* return value: the function is left with this list
ReturnList(value) ==
    /\ result' = value
    /\ pc' = "done"

\* variant: no test of the value cv2.imread returned
LoadMutNoCheck ==
    /\ pc = "load"
    /\ \E s \in ImageShapes : img' = IF readable THEN s ELSE NoImage
    /\ pc' = "preprocess"
    /\ UNCHANGED <<image_path, readable, preprocessed, lines, deskewed, warped, oriented,
                   rotations, found, contours, rejected_contours, crops_dir, files,
                   sorted_contours, idx, slices, slice_idx, cropped_paths,
                   rejected_regions, result, raised, escaped, entered, saved, sliced, others, pipeline>>

\* img = cv2.imread(str(image_path)); if img is None: return [str(image_path)]
Load ==
    /\ pc = "load"
    /\ IF ~readable
       THEN /\ ReturnList(Fallback(image_path))
            /\ UNCHANGED img
       ELSE /\ \E s \in ImageShapes : img' = s
            /\ pc' = "preprocess"
            /\ UNCHANGED result
    /\ UNCHANGED <<image_path, readable, preprocessed, lines, deskewed, warped, oriented,
                   rotations, found, contours, rejected_contours, crops_dir, files,
                   sorted_contours, idx, slices, slice_idx, cropped_paths,
                   rejected_regions, raised, escaped, entered, saved, sliced, others, pipeline>>

\* preprocessed = preprocess_image(img): same dimensions as the input
Preprocess ==
    /\ pc = "preprocess"
    /\ preprocessed' = img
    /\ pc' = "deskew"
    /\ UNCHANGED <<image_path, readable, img, lines, deskewed, warped, oriented,
                   rotations, found, contours, rejected_contours, crops_dir, files,
                   sorted_contours, idx, slices, slice_idx, cropped_paths,
                   rejected_regions, result, raised, escaped, entered, saved, sliced, others, pipeline>>

\* deskewed = deskew(preprocessed), with the deviations HoughLines reports drawn
\* from detected
DeskewFrom(detected) ==
    /\ pc = "deskew"
    /\ \E ls \in detected :
          /\ lines' = ls
          /\ deskewed' = deskew(preprocessed, ls)
          /\ warped' = DeskewRotates(ls)
    /\ pc' = "orient"
    /\ UNCHANGED <<image_path, readable, img, preprocessed, oriented,
                   rotations, found, contours, rejected_contours, crops_dir, files,
                   sorted_contours, idx, slices, slice_idx, cropped_paths,
                   rejected_regions, result, raised, escaped, entered, saved, sliced, others, pipeline>>

Deskew == DeskewFrom(SeqsUpTo(LineAngles, MaxLines))

\* oriented = fix_orientation(deskewed); the lines of deskew are gone
FixOrientation ==
    /\ pc = "orient"
    /\ \E vhigh \in BOOLEAN :
          /\ oriented' = fix_orientation(deskewed, vhigh).shape
          /\ rotations' = fix_orientation(deskewed, vhigh).rotations
    /\ lines' = <<>>
    /\ pc' = "extract"
    /\ UNCHANGED <<image_path, readable, img, preprocessed, deskewed, warped,
                   found, contours, rejected_contours, crops_dir, files,
                   sorted_contours, idx, slices, slice_idx, cropped_paths,
                   rejected_regions, result, raised, escaped, entered, saved, sliced, others, pipeline>>

\* extract_contours(image) on the contours cs that findContours returned
extract_contours(cs, image) ==
    [valid_contours |-> ValidFrom(cs, 1, image.h, image.w),
     rejected_contours |-> RejectedFrom(cs, 1, image.h, image.w)]

\* contours = extract_contours(oriented); if not contours: return [str(image_path)]
ExtractFrom(inputs) ==
    /\ pc = "extract"
    /\ \E cs \in inputs :
          /\ found' = cs
          /\ contours' = extract_contours(cs, oriented).valid_contours
          /\ rejected_contours' = extract_contours(cs, oriented).rejected_contours
    /\ IF contours' = <<>>
       THEN ReturnList(Fallback(image_path))
       ELSE pc' = "mkdir" /\ UNCHANGED result
    /\ UNCHANGED <<image_path, readable, img, preprocessed, lines, deskewed, warped, oriented,
                   rotations, crops_dir, files,
                   sorted_contours, idx, slices, slice_idx, cropped_paths,
                   rejected_regions, raised, escaped, entered, saved, sliced, others, pipeline>>

\* findContours returns each contour once, in an order of its own
ExtractContours ==
    ExtractFrom(DistinctSeqsUpTo(PageContours(oriented.h, oriented.w), MaxContours))

\* crops_dir.mkdir(parents=True, exist_ok=True); cropped_paths = []; rejected_regions = []
\* what extract_contours found and rejected stays as it was logged
MakeCropsDir ==
    /\ pc = "mkdir"
    /\ crops_dir' = TRUE
    /\ cropped_paths' = <<>>
    /\ rejected_regions' = <<>>
    /\ pc' = "sort"
    /\ UNCHANGED <<image_path, readable, img, preprocessed, lines, deskewed, warped, oriented,
                   rotations, found, contours, rejected_contours, files,
                   sorted_contours, idx, slices, slice_idx,
                   result, raised, escaped, entered, saved, sliced, others, pipeline>>

\* sorted_contours = sort_contours_by_position(contours, oriented.shape[:2])
SortContours ==
    /\ pc = "sort"
    /\ sorted_contours' = sort_contours_by_position(contours)
    /\ idx' = 1
    /\ pc' = "loop"
    /\ UNCHANGED <<image_path, readable, img, preprocessed, lines, deskewed, warped, oriented,
                   rotations, found, contours, rejected_contours, crops_dir, files,
                   slices, slice_idx, cropped_paths,
                   rejected_regions, result, raised, escaped, entered, saved, sliced, others, pipeline>>

\* region = oriented[y:y+h, x:x+w]: numpy clips the slice to the buffer
RegionShape(c, image) ==
    [h |-> Max(0, Min(c.y + c.h, image.h) - Min(c.y, image.h)),
     w |-> Max(0, Min(c.x + c.w, image.w) - Min(c.x, image.w))]

\* the loop moves on to the next contour
NextContour ==
    /\ idx' = idx + 1
    /\ slices' = <<>>
    /\ slice_idx' = 0
    /\ pc' = "loop"

\* variant: the contour is skipped and nothing is appended
RejectContourMutSilent(reason) ==
    /\ NextContour
    /\ UNCHANGED <<rejected_regions, cropped_paths, files, saved>>

\* rejected_regions.append({...}); continue
RejectContour(reason) ==
    /\ rejected_regions' = Append(rejected_regions, Rejection(idx, reason))
    /\ NextContour
    /\ UNCHANGED <<cropped_paths, files, saved>>

\* variant: the path save_crop returns is dropped
SaveAndAppendMutForget(base_name, k, rect) ==
    \E unique_id \in Uids, ok \in BOOLEAN :
        /\ files' = FilesAfterWrite(files, CropPath(base_name, unique_id), ok)
        /\ cropped_paths' = cropped_paths
        /\ saved' = Append(saved, [contour |-> idx, slice |-> k, rect |-> rect,
                                   path |-> CropPath(base_name, unique_id),
                                   written |-> ok])

\* crop_path = save_crop(crop, crops_dir, base_name); cropped_paths.append(crop_path)
\* the uuid is any value, and cv2.imwrite returns True or False; k is the
\* 1-based slice_idx, 0 for the crop of a whole region, rect what was cropped
SaveAndAppend(base_name, k, rect) ==
    \E unique_id \in Uids, ok \in BOOLEAN :
        /\ files' = FilesAfterWrite(files, CropPath(base_name, unique_id), ok)
        /\ cropped_paths' = Append(cropped_paths, CropPath(base_name, unique_id))
        /\ saved' = Append(saved, [contour |-> idx, slice |-> k, rect |-> rect,
                                   path |-> CropPath(base_name, unique_id),
                                   written |-> ok])

\* the rectangle of the oriented buffer that region covers
RegionRect(c, image) ==
    [x |-> Min(c.x, image.w), y |-> Min(c.y, image.h),
     w |-> RegionShape(c, image).w, h |-> RegionShape(c, image).h]

\* variant: a slice is placed below its last row instead of at its first
SliceRectMutOffset(c, image, s) ==
    [x |-> RegionRect(c, image).x, y |-> RegionRect(c, image).y + s.to,
     w |-> RegionRect(c, image).w, h |-> s.to - s.from]

\* the rectangle of the oriented buffer that a slice of the region covers
SliceRect(c, image, s) ==
    [x |-> RegionRect(c, image).x, y |-> RegionRect(c, image).y + s.from,
     w |-> RegionRect(c, image).w, h |-> s.to - s.from]

\* one pass of the body of "for idx, contour in enumerate(sorted_contours)" up to
\* the loop over the slices; profiles describes the row projections a region
\* may have
ProcessContourFrom(profiles) ==
    /\ pc = "loop"
    /\ idx <= Len(sorted_contours)
    /\ entered' = entered \cup {idx}
    /\ LET c == sorted_contours[idx]
           region == RegionShape(c, oriented)
       IN  IF AreaRatioBelow(c, oriented.h, oriented.w, MinAreaPerMilleCrop, 1000)
           THEN RejectContour("area ratio too small") /\ UNCHANGED sliced
           ELSE IF AreaTooLarge(c, oriented.h, oriented.w)
           THEN RejectContour("area ratio too large") /\ UNCHANGED sliced
           ELSE IF region.h * region.w = 0
           THEN RejectContour("extracted region is empty") /\ UNCHANGED sliced
           ELSE IF NeedsSlicing(c.h, oriented.h)
           THEN \E proj \in {ProjectionOf(d, region.h) : d \in profiles} :
                   LET sl == slice_receipt_region(proj, region.w)
                   IN  /\ sliced' = sliced \cup {[contour |-> idx, proj |-> proj,
                                                  slices |-> sl]}
                       /\ IF Len(sl) = 0
                          THEN RejectContour("slicing produced no valid slices")
                          ELSE /\ slices' = sl
                               /\ slice_idx' = 1
                               /\ pc' = "slices"
                               /\ UNCHANGED <<idx, cropped_paths, rejected_regions,
                                              files, saved>>
           ELSE /\ SaveAndAppend(RegionBase(image_path, idx - 1), 0,
                                 RegionRect(c, oriented))
                /\ NextContour
                /\ UNCHANGED <<rejected_regions, sliced, others>>
    /\ UNCHANGED <<image_path, readable, img, preprocessed, lines, deskewed, warped, oriented,
                   rotations, found, contours, rejected_contours, crops_dir,
                   sorted_contours, result, raised, escaped, others, pipeline>>

ProcessContour == ProcessContourFrom(RegionProfiles)

\* one pass of "for slice_idx, slice_img in enumerate(slices)"
SaveSlice ==
    /\ pc = "slices"
    /\ slice_idx <= Len(slices)
    /\ IF SliceSize(slices[slice_idx], RegionShape(sorted_contours[idx], oriented).w) > 0
       THEN SaveAndAppend(SliceBase(image_path, idx - 1, slice_idx - 1), slice_idx,
                          SliceRect(sorted_contours[idx], oriented, slices[slice_idx]))
       ELSE UNCHANGED <<cropped_paths, files, saved>>
    /\ IF slice_idx = Len(slices)
       THEN NextContour
       ELSE /\ slice_idx' = slice_idx + 1
            /\ UNCHANGED <<idx, slices, pc>>
    /\ UNCHANGED <<image_path, readable, img, preprocessed, lines, deskewed, warped, oriented,
                   rotations, found, contours, rejected_contours, crops_dir,
                   sorted_contours, rejected_regions, result, raised, escaped,
                   entered, sliced, others, pipeline>>

\* variant: an exception in the body of the loop ends the loop and the run
ContourRaisesMutAbort ==
    /\ pc \in {"loop", "slices"}
    /\ idx <= Len(sorted_contours)
    /\ entered' = entered \cup {idx}
    /\ ReturnList(Fallback(image_path))
    /\ UNCHANGED <<image_path, readable, img, preprocessed, lines, deskewed, warped, oriented,
                   rotations, found, contours, rejected_contours, crops_dir, files,
                   sorted_contours, idx, slices, slice_idx, cropped_paths,
                   rejected_regions, raised, escaped, saved, sliced, others, pipeline>>

\* an exception anywhere in the body of the loop: "except Exception as e: ...
\* rejected_regions.append(...); continue"
ContourRaises ==
    /\ pc \in {"loop", "slices"}
    /\ idx <= Len(sorted_contours)
    /\ entered' = entered \cup {idx}
    /\ RejectContour("processing error")
    /\ UNCHANGED <<image_path, readable, img, preprocessed, lines, deskewed, warped, oriented,
                   rotations, found, contours, rejected_contours, crops_dir,
                   sorted_contours, result, raised, escaped, sliced, others, pipeline>>

\* variant: no fallback when nothing was cropped
ReturnValueMutNoFallback(paths, p) == paths

\* variant: the input path is returned along with the crops
ReturnValueMutAppendInput(paths, p) == Append(paths, p)

\* if not cropped_paths: return [str(image_path)]; return cropped_paths
ReturnValue(paths, p) == IF paths = <<>> THEN Fallback(p) ELSE paths

\* the end of the loop, the summary and the return
Return ==
    /\ pc = "loop"
    /\ idx > Len(sorted_contours)
    /\ ReturnList(ReturnValue(cropped_paths, image_path))
    /\ UNCHANGED <<image_path, readable, img, preprocessed, lines, deskewed, warped, oriented,
                   rotations, found, contours, rejected_contours, crops_dir, files,
                   sorted_contours, idx, slices, slice_idx, cropped_paths,
                   rejected_regions, raised, escaped, entered, saved, sliced, others, pipeline>>

\* the statements of the outer try block outside the loop over the contours
Stages == {"load", "preprocess", "deskew", "orient", "extract", "mkdir", "sort"}

\* variant: the exception leaves the function
OuterHandlerMutReraise(p) ==
    /\ result' = NoResult
    /\ escaped' = TRUE
    /\ pc' = "done"

\* except Exception as e: ... return [str(image_path)]
OuterHandler(p) ==
    /\ ReturnList(Fallback(p))
    /\ UNCHANGED escaped

\* an exception in one of the stages
StageRaises ==
    /\ pc \in Stages
    /\ pc = "load" => readable
    /\ raised' = pc
    /\ OuterHandler(image_path)
    /\ UNCHANGED <<image_path, readable, img, preprocessed, lines, deskewed, warped, oriented,
                   rotations, found, contours, rejected_contours, crops_dir, files,
                   sorted_contours, idx, slices, slice_idx, cropped_paths,
                   rejected_regions, entered, saved, sliced, others, pipeline>>

Next ==
    \/ Load
    \/ Preprocess
    \/ Deskew
    \/ FixOrientation
    \/ ExtractContours
    \/ MakeCropsDir
    \/ SortContours
    \/ ProcessContour
    \/ SaveSlice
    \/ ContourRaises
    \/ Return
    \/ StageRaises

Spec == Init /\ [][Next]_vars

(***************************************************************************)
(* extract_contours on its own: one contour on one page, with the          *)
(* bounding box and the area on either side of every threshold.            *)
(***************************************************************************)
\* pages; on the last one a 51 px box is below 1% of the height and 3% of the width
ExtractPages == {Shape(100, 100), Shape(200, 150), Shape(400, 300), Shape(6000, 5700)}

\* bounding-box heights around ch > h * 0.01 and ch > 50
BoundaryHeights(H) ==
    {1, Max(1, H \div 100), H \div 100 + 1, ReasonablePx, ReasonablePx + 1, Min(H, 400)}

\* bounding-box widths around cw > w * 0.03 and cw > 50
BoundaryWidths(W) ==
    {1, Max(1, (3 * W) \div 100), (3 * W) \div 100 + 1, ReasonablePx, ReasonablePx + 1,
     Min(W, 400)}

\* values of 2 * contourArea around area_ratio > 0.0005, > 0.001 and > 0.95
BoundaryAreas(H, W) ==
    {0, (H * W) \div 1000, (H * W) \div 1000 + 1, (H * W) \div 500, (H * W) \div 500 + 1,
     (19 * H * W) \div 10, (19 * H * W) \div 10 + 1}

\* the contours with these boxes and the areas that fit in them
BoundaryContours(H, W) ==
    UNION { UNION { { Contour(0, 0, cw, ch, a) :
                        a \in { v \in BoundaryAreas(H, W) \cup {MaxArea2(cw, ch)} :
                                    v <= MaxArea2(cw, ch) } } :
                    ch \in BoundaryHeights(H) } :
            cw \in BoundaryWidths(W) }

InitExtract ==
    /\ pc = "extract"
    /\ image_path \in InputPaths
    /\ readable = TRUE
    /\ files = {image_path}
    /\ oriented \in ExtractPages
    /\ img = oriented
    /\ preprocessed = oriented
    /\ deskewed = oriented
    /\ warped = FALSE
    /\ lines = <<>>
    /\ rotations = 0
    /\ found = <<>>
    /\ contours = <<>>
    /\ rejected_contours = <<>>
    /\ crops_dir = FALSE
    /\ sorted_contours = <<>>
    /\ idx = 0
    /\ slices = <<>>
    /\ slice_idx = 0
    /\ cropped_paths = <<>>
    /\ rejected_regions = <<>>
    /\ result = NoResult
    /\ raised = "none"
    /\ escaped = FALSE
    /\ entered = {}
    /\ saved = <<>>
    /\ sliced = {}
    /\ others = {}
    /\ pipeline = NoPipeline

ExtractOne == ExtractFrom({<<c>> : c \in BoundaryContours(oriented.h, oriented.w)})

NextExtract == ExtractOne

SpecExtract == InitExtract /\ [][NextExtract]_vars

(***************************************************************************)
(* Properties of detect_receipts.                                          *)
(***************************************************************************)
Range(s) == {s[k] : k \in 1..Len(s)}

\* the paths save_crop returned in this run, in the order of the calls
SavedPaths == [k \in 1..Len(saved) |-> saved[k].path]

\* the run returned without the outer handler
ReturnedNormally == pc = "done" /\ raised = "none" /\ ~escaped

\* the loop positions with an entry in rejected_regions
RejectedPositions == {rejected_regions[k].contour : k \in 1..Len(rejected_regions)}

\* the loop positions at which save_crop returned
SavedPositions == {saved[k].contour : k \in 1..Len(saved)}

\* C1: whatever the input path, the stages and the writes do, the list
\* detect_receipts returns is not empty and is either exactly [image_path] or
\* made only of paths save_crop produced in this run under TEMP_DIR/crops;
\* the input path never stands among crop paths.
C1_FallbackOrCrops ==
    pc = "done" =>
        /\ Len(result) >= 1
        /\ \/ result = <<image_path>>
           \/ /\ \A k \in 1..Len(result) :
                    /\ result[k] \in Range(SavedPaths)
                    /\ result[k].dir = CropsDir
              /\ image_path \notin Range(result)

\* a run that returned two crop paths for an input that lies in the crops
\* directory itself
C1_Witness ==
    /\ pc = "done"
    /\ Len(result) = 2
    /\ result # <<image_path>>
    /\ image_path.dir = CropsDir

\* C2: when extract_contours accepted nothing, or when every accepted
\* contour ended with a rejection entry and save_crop returned for none of
\* them, a run that reaches the return statement returns exactly [image_path].
C2_NothingSavedFallsBack ==
    (/\ ReturnedNormally
     /\ readable
     /\ \/ contours = <<>>
        \/ /\ RejectedPositions = 1..Len(sorted_contours)
           /\ SavedPositions = {})
    => result = <<image_path>>

\* two accepted contours, one filtered out and one that failed, and no crop
C2_Witness ==
    /\ ReturnedNormally
    /\ Len(sorted_contours) = 2
    /\ RejectedPositions = {1, 2}
    /\ SavedPositions = {}
    /\ \E k \in 1..Len(rejected_regions) : rejected_regions[k].reason = "processing error"
    /\ \E k \in 1..Len(rejected_regions) : rejected_regions[k].reason # "processing error"
    /\ result = <<image_path>>

\* C3: when cv2.imread returns None (a missing file included) the run
\* returns exactly [image_path], nothing is raised, no later stage runs, and
\* neither the crops directory nor a crop file is created.
C3_UnreadableFallsBack ==
    ~readable =>
        /\ pc \in {"load", "done"}
        /\ pc = "done" => result = <<image_path>>
        /\ raised = "none" /\ ~escaped
        /\ img = NoImage /\ preprocessed = NoImage
        /\ deskewed = NoImage /\ oriented = NoImage
        /\ found = <<>> /\ sorted_contours = <<>> /\ entered = {}
        /\ ~crops_dir
        /\ saved = <<>>
        /\ files \subseteq {image_path}

\* the run returned for a file that does not exist
C3_Witness ==
    /\ pc = "done"
    /\ ~readable
    /\ image_path \notin files
    /\ result = <<image_path>>

\* C4: no exception leaves detect_receipts; an exception in preprocessing,
\* deskewing, orientation, contour extraction, creation of the crops
\* directory or sorting makes the run return exactly [image_path].
C4_StageFailureFallsBack ==
    /\ ~escaped
    /\ raised # "none" =>
          /\ pc = "done"
          /\ result = <<image_path>>

\* the sort raised after the crops directory was created
C4_Witness ==
    /\ raised = "sort"
    /\ crops_dir
    /\ contours # <<>>
    /\ pc = "done"

\* C5: an exception in the body of the loop rejects that contour only:
\* the body is entered for every contour of the sorted order, a contour has
\* at most one rejection entry, and the paths save_crop returned before (for
\* earlier contours or earlier slices of the same contour) stay, in order,
\* in cropped_paths and in the returned list.
C5_ContourFailureIsLocal ==
    /\ pc \in {"loop", "slices"} =>
          /\ cropped_paths = SavedPaths
          /\ entered = 1..(IF pc = "slices" THEN idx ELSE idx - 1)
    /\ \A j, k \in 1..Len(rejected_regions) :
          rejected_regions[j].contour = rejected_regions[k].contour => j = k
    /\ (ReturnedNormally /\ contours # <<>>) =>
          /\ entered = 1..Len(sorted_contours)
          /\ cropped_paths = SavedPaths
          /\ saved # <<>> => result = SavedPaths

\* the first contour failed after its first slice was saved, the second
\* contour was saved after that, and both paths were returned
C5_Witness ==
    /\ ReturnedNormally
    /\ Len(sorted_contours) = 2
    /\ \E k \in 1..Len(rejected_regions) :
          /\ rejected_regions[k].contour = 1
          /\ rejected_regions[k].reason = "processing error"
    /\ Len(saved) = 2
    /\ saved[1].contour = 1 /\ saved[1].slice = 1
    /\ saved[2].contour = 2
    /\ result = SavedPaths

\* C6: for a readable input, every path of the returned list names a file
\* that exists when detect_receipts returns.
C6_ReturnedFilesExist ==
    (pc = "done" /\ readable) => \A k \in 1..Len(result) : result[k] \in files

(***************************************************************************)
(* Properties of extract_contours.  The thresholds are written out here as *)
(* the sentences state them, with area ratio = area2 / (2 * H * W).        *)
(***************************************************************************)
\* area ratio at most 0.95
RatioAtMost95(c, H, W) == 10 * c.area2 <= 19 * H * W

\* the criteria a contour strictly satisfies
CriteriaMet(c, H, W) ==
    { n \in {"height", "width", "aspect", "area"} :
        CASE n = "height" -> 100 * c.h > H
          [] n = "width"  -> 100 * c.w > 3 * W
          [] n = "aspect" -> 10 * c.h > 3 * c.w
          [] n = "area"   -> 1000 * c.area2 > 2 * H * W }

\* score >= 1, or area ratio > 0.0005, or both sides of the box above 50 px
PermissiveAccept(c, H, W) ==
    \/ Cardinality(CriteriaMet(c, H, W)) >= 1
    \/ 1000 * c.area2 > H * W
    \/ (c.h > 50 /\ c.w > 50)

\* C7: extract_contours never accepts a contour whose area ratio exceeds
\* 0.95, whatever its bounding box and the criteria it meets.
C7_OversizedNeverAccepted ==
    \A k \in 1..Len(contours) : RatioAtMost95(contours[k], oriented.h, oriented.w)

\* C8: a contour with area ratio at most 0.95 is accepted by
\* extract_contours exactly when its score is at least 1, or its area ratio
\* is above 0.0005, or both its height and its width are above 50 px.
C8_PermissiveAcceptance ==
    \A k \in 1..Len(found) :
        RatioAtMost95(found[k], oriented.h, oriented.w) =>
            (found[k] \in Range(contours)
                <=> PermissiveAccept(found[k], oriented.h, oriented.w))

\* a contour that meets no criterion and has an area ratio below 0.0005 is
\* accepted for its size alone
C8_Witness ==
    /\ Len(found) = 1
    /\ contours = found
    /\ CriteriaMet(found[1], oriented.h, oriented.w) = {}
    /\ 1000 * found[1].area2 <= oriented.h * oriented.w
    /\ found[1].h > 50 /\ found[1].w > 50

\* C9: for a contour with area ratio at most 0.95 the score is the number
\* of the four criteria it strictly satisfies (height > 1% of the page
\* height, width > 3% of the page width, height / width > 0.3, area ratio >
\* 0.001), it lies in 0..4, the score logged with a rejected contour is
\* that number, and a contour satisfying all four scores 4 and is accepted.
C9_ScoreCountsCriteria ==
    /\ \A k \in 1..Len(found) :
          LET c == found[k]
              n == Cardinality(CriteriaMet(c, oriented.h, oriented.w))
          IN  RatioAtMost95(c, oriented.h, oriented.w) =>
                  /\ Score(c, oriented.h, oriented.w) = n
                  /\ Score(c, oriented.h, oriented.w) \in 0..4
                  /\ n = 4 => c \in Range(contours)
    /\ \A k \in 1..Len(rejected_contours) :
          LET r == rejected_contours[k]
          IN  /\ r.index \in 1..Len(found)
              /\ RatioAtMost95(found[r.index], oriented.h, oriented.w) =>
                    r.score = Cardinality(CriteriaMet(found[r.index], oriented.h,
                                                      oriented.w))

\* a contour whose area is just above 0.1% of the page and that satisfies
\* the other three criteria as well
C9_Witness ==
    /\ Len(found) = 1
    /\ contours = found
    /\ Cardinality(CriteriaMet(found[1], oriented.h, oriented.w)) = 4
    /\ found[1].area2 = (oriented.h * oriented.w) \div 500 + 1
    /\ Score(found[1], oriented.h, oriented.w) = 4

(***************************************************************************)
(* What an accepted contour contributes to the result.                     *)
(***************************************************************************)
\* the calls of save_crop that returned at loop position i, in order
SavedFor(i) == SelectSeq(saved, LAMBDA r : r.contour = i)

\* loop position i ended in the handler of the loop body
FailedAt(i) ==
    \E k \in 1..Len(rejected_regions) :
        /\ rejected_regions[k].contour = i
        /\ rejected_regions[k].reason = "processing error"

\* position i contributed the crop of the bounding rectangle of c
ContributesCrop(i, c) ==
    /\ Len(SavedFor(i)) = 1
    /\ SavedFor(i)[1].slice = 0
    /\ SavedFor(i)[1].rect = [x |-> c.x, y |-> c.y, w |-> c.w, h |-> c.h]
    /\ SavedFor(i)[1].path \in Range(result)

\* position i contributed one path per slice, in slice order
ContributesSlices(i) ==
    \E s \in sliced :
        /\ s.contour = i
        /\ Len(s.slices) >= 1
        /\ Len(SavedFor(i)) = Len(s.slices)
        /\ \A k \in 1..Len(s.slices) :
              /\ SavedFor(i)[k].slice = k
              /\ SavedFor(i)[k].rect.h = s.slices[k].to - s.slices[k].from
              /\ SavedFor(i)[k].path \in Range(result)

OrientSides == {1, 4, 5, 8, 9, 10, 60, 90, 100, 150, 200}

OrientShapes == {Shape(h, w) : h \in OrientSides, w \in OrientSides}

InitOrient ==
    /\ pc = "orient"
    /\ image_path \in InputPaths
    /\ readable = TRUE
    /\ files = {image_path}
    /\ deskewed \in OrientShapes
    /\ warped = FALSE
    /\ img = deskewed
    /\ preprocessed = deskewed
    /\ oriented = NoImage
    /\ lines = <<>>
    /\ rotations = 0
    /\ found = <<>>
    /\ contours = <<>>
    /\ rejected_contours = <<>>
    /\ crops_dir = FALSE
    /\ sorted_contours = <<>>
    /\ idx = 0
    /\ slices = <<>>
    /\ slice_idx = 0
    /\ cropped_paths = <<>>
    /\ rejected_regions = <<>>
    /\ result = NoResult
    /\ raised = "none"
    /\ escaped = FALSE
    /\ entered = {}
    /\ saved = <<>>
    /\ sliced = {}
    /\ others = {}
    /\ pipeline = NoPipeline

NextOrient == FixOrientation

SpecOrient == InitOrient /\ [][NextOrient]_vars

\* fix_orientation has returned
Oriented == pc = "extract" /\ oriented # NoImage

C12_AtMostOneRotation ==
    Oriented =>
        /\ rotations \in {0, 1}
        /\ rotations = 0 => oriented = deskewed
        /\ rotations = 1 => oriented = Rotate90(deskewed)

\* a landscape buffer: the first check turns it, and neither the density
\* check nor the final check turns it again
C12_Witness ==
    /\ Oriented
    /\ deskewed = Shape(60, 90)
    /\ rotations = 1
    /\ oriented = Shape(90, 60)

(***************************************************************************)
(* deskew on its own: one buffer, any lines.                               *)
(***************************************************************************)
\* shapes from square to forty times wider than tall, and the reverse
DeskewShapes ==
    {Shape(200, 150), Shape(150, 200), Shape(100, 100), Shape(1, 1),
     Shape(200, 600), Shape(600, 200), Shape(10, 1000), Shape(1000, 10),
     Shape(415, 1000), Shape(1000, 415), Shape(400, 1000), Shape(300, 40)}

\* deviations of the lines: around 2 degrees, around 45 degrees, and between
DeskewAngles == {-44, -3, 0, 2, 3, 30, 37, 44, 45}

InitDeskew ==
    /\ pc = "deskew"
    /\ image_path \in InputPaths
    /\ readable = TRUE
    /\ files = {image_path}
    /\ preprocessed \in DeskewShapes
    /\ img = preprocessed
    /\ deskewed = NoImage
    /\ warped = FALSE
    /\ oriented = NoImage
    /\ lines = <<>>
    /\ rotations = 0
    /\ found = <<>>
    /\ contours = <<>>
    /\ rejected_contours = <<>>
    /\ crops_dir = FALSE
    /\ sorted_contours = <<>>
    /\ idx = 0
    /\ slices = <<>>
    /\ slice_idx = 0
    /\ cropped_paths = <<>>
    /\ rejected_regions = <<>>
    /\ result = NoResult
    /\ raised = "none"
    /\ escaped = FALSE
    /\ entered = {}
    /\ saved = <<>>
    /\ sliced = {}
    /\ others = {}
    /\ pipeline = NoPipeline

\* three lines, among them lines at 45 degrees and outliers
LineTriples ==
    {<<a, b, c>> : a \in {-44, 3, 45}, b \in {0, 3, 30, 45}, c \in {-3, 30, 45}}

DeskewAny == DeskewFrom(SeqsUpTo(DeskewAngles, MaxLines) \cup LineTriples)

NextDeskew == DeskewAny

SpecDeskew == InitDeskew /\ [][NextDeskew]_vars

\* deskew has returned
Deskewed == pc = "orient" /\ raised = "none"

\* C13 as stated: whenever deskew rotates, the output canvas is at least
\* as wide and at least as tall as the input.
C13_CanvasOnlyGrows ==
    (Deskewed /\ warped) =>
        /\ deskewed.w >= preprocessed.w
        /\ deskewed.h >= preprocessed.h

\* C13, amended: whenever deskew rotates, at least one of the two sides of
\* the canvas does not shrink; the width does not shrink when the input
\* height is at least 0.415 of its width, and the height does not shrink
\* when the input width is at least 0.415 of its height.
C13_CanvasGrowsForModerateShapes ==
    (Deskewed /\ warped) =>
        /\ deskewed.w >= preprocessed.w \/ deskewed.h >= preprocessed.h
        /\ 1000 * preprocessed.h >= 415 * preprocessed.w
              => deskewed.w >= preprocessed.w
        /\ 1000 * preprocessed.w >= 415 * preprocessed.h
              => deskewed.h >= preprocessed.h

\* a page turned by 44 degrees whose shape is just inside the range where
\* the width cannot shrink
C13_Witness ==
    /\ Deskewed
    /\ warped
    /\ preprocessed = Shape(415, 1000)
    /\ lines = <<44>>
    /\ deskewed.w >= 1000
    /\ deskewed.h > 415

\* the deviations that pass the filter abs(angle) < 45
FilteredDeviations == SelectSeq(lines, LAMBDA a : -45 < a /\ a < 45)

\* no line, no deviation that passes the filter, or a median of at most 2
\* degrees in magnitude
NothingToDeskew ==
    \/ lines = <<>>
    \/ FilteredDeviations = <<>>
    \/ (-4 <= Median2(FilteredDeviations) /\ Median2(FilteredDeviations) <= 4)

\* C14: deskew returns its input buffer as it is when no line is detected,
\* when no deviation passes the angle filter, or when the magnitude of the
\* median deviation is at most 2 degrees; it rotates in every other case
\* and in no other.
C14_DeskewOnlyAboveTwoDegrees ==
    Deskewed =>
        /\ NothingToDeskew => (~warped /\ deskewed = preprocessed)
        /\ ~NothingToDeskew => warped

\* two lines whose median deviation is exactly 2 degrees: the input is
\* returned
C14_Witness ==
    /\ Deskewed
    /\ Len(lines) = 2
    /\ Median2(FilteredDeviations) = 4
    /\ ~warped
    /\ deskewed = preprocessed

(***************************************************************************)
(* slice_receipt_region on its own: one region taller than 70% of the      *)
(* page, with row projections made of bands.                               *)
(***************************************************************************)
\* pages, each with one contour as tall as the page
SlicePages == {Shape(40, 30), Shape(100, 80), Shape(105, 80), Shape(200, 150)}

TallContour(page) ==
    Contour(0, 0, page.w \div 2, page.h, MaxArea2(page.w \div 2, page.h))

InitSlice ==
    /\ pc = "loop"
    /\ image_path \in InputPaths
    /\ readable = TRUE
    /\ files = {image_path}
    /\ oriented \in SlicePages
    /\ img = oriented
    /\ preprocessed = oriented
    /\ deskewed = oriented
    /\ warped = FALSE
    /\ lines = <<>>
    /\ rotations = 0
    /\ found = <<>>
    /\ contours = <<TallContour(oriented)>>
    /\ rejected_contours = <<>>
    /\ crops_dir = TRUE
    /\ sorted_contours = contours
    /\ idx = 1
    /\ slices = <<>>
    /\ slice_idx = 0
    /\ cropped_paths = <<>>
    /\ rejected_regions = <<>>
    /\ result = NoResult
    /\ raised = "none"
    /\ escaped = FALSE
    /\ entered = {}
    /\ saved = <<>>
    /\ sliced = {}
    /\ others = {}
    /\ pipeline = NoPipeline

SliceOne == ProcessContourFrom(BandProfiles)

NextSlice ==
    \/ SliceOne
    \/ SaveSlice

SpecSlice == InitSlice /\ [][NextSlice]_vars

\* the rows (numbered from 0) whose projection is above 20% of the mean
TextRows(proj) ==
    LET total == SumRows(proj, 1, Len(proj))
    IN  {i \in 0..(Len(proj) - 1) : 5 * Len(proj) * proj[i + 1] > total}

SetMin(S) == CHOOSE x \in S : \A y \in S : x <= y
SetMax(S) == CHOOSE x \in S : \A y \in S : x >= y

\* the rows between the first and the last text row that are not text
InnerGap(proj) ==
    LET text == TextRows(proj)
    IN  IF text = {} THEN {} ELSE (SetMin(text)..SetMax(text)) \ text

\* exactly two bands above the threshold, each at least 10% of the height,
\* and between them one flat gap that lies strictly between 5% and 95% of
\* the height
TwoBandsOneGap(proj) ==
    LET h == Len(proj)
        text == TextRows(proj)
        gap == InnerGap(proj)
    IN  /\ gap # {}
        /\ LET s1 == SetMin(text)
               e1 == SetMin(gap)
               s2 == SetMax(gap) + 1
               e2 == SetMax(text) + 1
           IN  /\ Cardinality(gap) = s2 - e1
               /\ \A i \in gap : proj[i + 1] = proj[e1 + 1]
               /\ 10 * (e1 - s1) >= h
               /\ 10 * (e2 - s2) >= h
               /\ 20 * e1 > h
               /\ 20 * s2 < 19 * h

\* C15: a region made of two bands above the threshold, each at least 10%
\* of its height, with one flat gap between them that lies strictly between
\* 5% and 95% of the height, is cut into exactly two slices, each at least
\* 10% of the height, wherever the first band starts, the first row
\* included.
C15_TwoBandsGiveTwoSlices ==
    \A s \in sliced :
        TwoBandsOneGap(s.proj) =>
            /\ Len(s.slices) = 2
            /\ \A k \in 1..Len(s.slices) :
                  10 * (s.slices[k].to - s.slices[k].from) >= Len(s.proj)

\* every row has the same projection
Uniform(proj) == \A i \in 1..Len(proj) : proj[i] = proj[1]

\* C16: a region whose rows all have the same projection, all zero
\* included, gives exactly one slice, the whole region.
C16_UniformGivesWholeRegion ==
    \A s \in sliced :
        Uniform(s.proj) => s.slices = <<[from |-> 0, to |-> Len(s.proj)]>>

\* an all-zero region and its one slice, about to be saved
C16_Witness ==
    /\ pc = "slices"
    /\ \E s \in sliced :
          /\ Uniform(s.proj)
          /\ s.proj[1] = 0
          /\ s.slices = <<[from |-> 0, to |-> Len(s.proj)]>>
          /\ slices = s.slices

\* C17: when fewer than two valid slices remain after the cuts the result
\* is the region itself: a result of one slice is the whole region, all of
\* its rows.
C17_SingleSliceIsWholeRegion ==
    \A s \in sliced :
        Len(s.slices) = 1 => s.slices[1] = [from |-> 0, to |-> Len(s.proj)]

(***************************************************************************)
(* Another invocation of detect_receipts running at the same time, for a   *)
(* source image with the same stem: its calls of save_crop write into the  *)
(* same crops directory.  Only the equality of two random suffixes         *)
(* matters, so this invocation draws its suffix from Uids and the other    *)
(* one draws the same value or a different one.                            *)
(***************************************************************************)
MaxOtherCrops == 1       \* crops the other invocation writes during this run

\* values of str(uuid.uuid4())[:8] in the other invocation
OtherUids == Uids \cup {"9c4e7d12"}

\* base names the other invocation passes to save_crop
OtherBaseNames ==
    {RegionBase(image_path, i) : i \in 0..(MaxContours - 1)}
        \cup {SliceBase(image_path, i, 0) : i \in 0..(MaxContours - 1)}

\* save_crop in the other invocation: cv2.imwrite creates or overwrites the file
OtherInvocationSaves ==
    /\ pc \in {"loop", "slices"}
    /\ Cardinality(others) < MaxOtherCrops
    /\ \E base_name \in OtherBaseNames, unique_id \in OtherUids :
          /\ others' = others \cup {CropPath(base_name, unique_id)}
          /\ files' = files \cup {CropPath(base_name, unique_id)}
    /\ UNCHANGED <<pc, image_path, readable, img, preprocessed, lines, deskewed, warped,
                   oriented, rotations, found, contours, rejected_contours, crops_dir,
                   sorted_contours, idx, slices, slice_idx, cropped_paths,
                   rejected_regions, result, raised, escaped, entered, saved, sliced,
                   pipeline>>

\* the accepted contours of this run: one to crop whole, one to slice, one
\* to filter out
ConcurrentContours(H, W) ==
    { Contour(0, 0, 1, 1, 0),
      Contour(0, 2, W \div 2, (7 * H) \div 10 + 1, MaxArea2(W \div 2, (7 * H) \div 10 + 1)),
      Contour(W \div 2, H \div 2, W \div 2, H \div 4, MaxArea2(W \div 2, H \div 4)) }

InitConcurrent ==
    /\ pc = "loop"
    /\ image_path \in InputPaths
    /\ readable = TRUE
    /\ files = {image_path}
    /\ oriented = Shape(200, 150)
    /\ img = oriented
    /\ preprocessed = oriented
    /\ deskewed = oriented
    /\ warped = FALSE
    /\ lines = <<>>
    /\ rotations = 0
    /\ found = <<>>
    /\ contours \in DistinctSeqsUpTo(ConcurrentContours(oriented.h, oriented.w),
                                     MaxContours) \ {<<>>}
    /\ rejected_contours = <<>>
    /\ crops_dir = TRUE
    /\ sorted_contours = sort_contours_by_position(contours)
    /\ idx = 1
    /\ slices = <<>>
    /\ slice_idx = 0
    /\ cropped_paths = <<>>
    /\ rejected_regions = <<>>
    /\ result = NoResult
    /\ raised = "none"
    /\ escaped = FALSE
    /\ entered = {}
    /\ saved = <<>>
    /\ sliced = {}
    /\ others = {}
    /\ pipeline = NoPipeline

NextConcurrent ==
    \/ ProcessContour
    \/ SaveSlice
    \/ ContourRaises
    \/ Return
    \/ OtherInvocationSaves

SpecConcurrent == InitConcurrent /\ [][NextConcurrent]_vars

\* C18: two crops persisted by invocations of detect_receipts that run at
\* the same time never get the same path, so neither overwrites a file of
\* the other: no path save_crop returned in this run is a path another
\* invocation wrote.
C18_NoSharedCropPath ==
    \A k \in 1..Len(saved) : saved[k].path \notin others

(***************************************************************************)
(* Order and geometry of the crops.                                        *)
(***************************************************************************)
\* the top of the bounding box of the contour the k-th saved crop comes from
SourceTop(k) == sorted_contours[saved[k].contour].y

\* C19: the returned crop paths are in non-decreasing order of the top of
\* the bounding box of their source contour, and the slices of one region
\* stand next to each other, in slice order from top to bottom.
C19_CropsTopToBottom ==
    (ReturnedNormally /\ saved # <<>>) =>
        /\ result = SavedPaths
        /\ \A k, l \in 1..Len(saved) :
              k < l =>
                  /\ SourceTop(k) <= SourceTop(l)
                  /\ saved[k].contour <= saved[l].contour
                  /\ saved[k].contour = saved[l].contour =>
                        /\ saved[l].slice - saved[k].slice = l - k
                        /\ saved[k].slice >= 1
                        /\ saved[k].rect.y + saved[k].rect.h <= saved[l].rect.y

\* findContours gave the lower contour first; the upper one was cut into
\* two slices, which come first, and the crop of the lower one comes last
C19_Witness ==
    /\ ReturnedNormally
    /\ Len(contours) = 2
    /\ contours # sorted_contours
    /\ Len(saved) = 3
    /\ saved[1].contour = 1 /\ saved[1].slice = 1
    /\ saved[2].contour = 1 /\ saved[2].slice = 2
    /\ saved[3].contour = 2 /\ saved[3].slice = 0
    /\ result = SavedPaths

\* C20: every crop that is saved, the crop of a region or a slice, has a
\* strictly positive width and height and is a rectangle that lies inside
\* the oriented page.
C20_CropsInsideCanvas ==
    \A k \in 1..Len(saved) :
        /\ saved[k].rect.w > 0
        /\ saved[k].rect.h > 0
        /\ saved[k].rect.x >= 0
        /\ saved[k].rect.y >= 0
        /\ saved[k].rect.x + saved[k].rect.w <= oriented.w
        /\ saved[k].rect.y + saved[k].rect.h <= oriented.h

\* the second slice of a region that does not start at the top of the page
\* was written
C20_Witness ==
    \E k \in 1..Len(saved) :
        /\ saved[k].slice = 2
        /\ saved[k].written
        /\ sorted_contours[saved[k].contour].y > 0
        /\ saved[k].rect.y > sorted_contours[saved[k].contour].y
        /\ saved[k].path \in files

(***************************************************************************)
(* The run scan and the local-minimum search of slice_receipt_region.      *)
(***************************************************************************)
\* splits after the for loop over above_threshold
ScanSplits(proj) ==
    RunScan(proj, SumRows(proj, 1, Len(proj)), ScanStart, 0, Len(proj)).splits

\* the gaps between two consecutive runs of rows above the threshold, each
\* as the pair of its first row and the first row of the next run
GapsBetweenRuns(proj) ==
    LET text == TextRows(proj)
    IN  {<<a, b>> \in (0..Len(proj)) \X (0..Len(proj)) :
            /\ a < b
            /\ a - 1 \in text
            /\ b \in text
            /\ \A i \in a..(b - 1) : i \notin text}

\* C23: the run scan produces one split for every gap between two
\* consecutive runs of rows above the threshold, the midpoint of the gap:
\* floor((first row after the previous run + first row of the next run) / 2).
C23_SplitsAreGapMidpoints ==
    \A r \in sliced :
        LET gaps == GapsBetweenRuns(r.proj)
            scan == ScanSplits(r.proj)
        IN  /\ Len(scan) = Cardinality(gaps)
            /\ Range(scan) = {(g[1] + g[2]) \div 2 : g \in gaps}

\* the splits that reach the loop that cuts the region
SplitsToCut(proj) == SortInts(EdgeFilter(CandidateSplits(proj), Len(proj)))

\* C24: every slice slice_receipt_region returns is at least 10% of the
\* height of the region tall.
C24_SlicesAtLeastTenPercent ==
    \A r \in sliced :
        \A k \in 1..Len(r.slices) :
            100 * (r.slices[k].to - r.slices[k].from) >= MinSlicePct * Len(r.proj)

\* a region cut in two after a first split that was passed over because the
\* slice above it would have been too short
C24_Witness ==
    \E r \in sliced :
        /\ Len(SplitsToCut(r.proj)) = 2
        /\ 100 * SplitsToCut(r.proj)[1] <= MinSlicePct * Len(r.proj)
        /\ Len(r.slices) = 2
        /\ r.slices[1].to = SplitsToCut(r.proj)[2]
        /\ r.slices[2].to = Len(r.proj)

\* splits after the search for local minima, before the suppression
MinimaOf(proj) == LocalMinima(proj, SumRows(proj, 1, Len(proj)), 1, Len(proj) - 1)

\* the interior rows below the threshold and strictly lower than both
\* neighbours
ValleyRows(proj) ==
    LET total == SumRows(proj, 1, Len(proj))
    IN  {i \in 1..(Len(proj) - 2) :
            /\ 5 * Len(proj) * proj[i + 1] < total
            /\ proj[i + 1] < proj[i]
            /\ proj[i + 1] < proj[i + 2]}

\* the search for local minima runs only when the scan found no split, it
\* finds exactly the valleys, and the suppression keeps the first valley and
\* drops only valleys that follow a retained one at less than h // 10 rows
MinimaSearchSelectsValleys(proj) ==
    LET scan == ScanSplits(proj)
        retained == Range(CandidateSplits(proj))
        valleys == ValleyRows(proj)
    IN  /\ scan # <<>> => CandidateSplits(proj) = scan
        /\ scan = <<>> =>
              /\ Range(MinimaOf(proj)) = valleys
              /\ Len(MinimaOf(proj)) = Cardinality(valleys)
              /\ retained \subseteq valleys
              /\ valleys # {} => SetMin(valleys) \in retained
              /\ \A v \in valleys \ retained :
                    \E k \in retained : k < v /\ v - k < Len(proj) \div MinDistanceDiv

\* the retained splits of a region whose scan found no split
RetainedMinima(proj) ==
    IF ScanSplits(proj) = <<>> THEN Range(CandidateSplits(proj)) ELSE {}

\* C25 as stated: the search for local minima runs only when the run scan
\* found no split, selects exactly the valleys, and after the suppression no
\* two retained splits are closer together than 10% of the region height.
C25_RetainedTenPercentApart ==
    \A r \in sliced :
        /\ MinimaSearchSelectsValleys(r.proj)
        /\ \A a, b \in RetainedMinima(r.proj) :
              a < b => 100 * (b - a) >= 10 * Len(r.proj)

\* C25: the search for local minima runs only when the run scan found no
\* split, selects exactly the valleys, and after the suppression no two
\* retained splits are closer together than floor(h / 10) rows, h being the
\* region height.
C25_RetainedFloorTenthApart ==
    \A r \in sliced :
        /\ MinimaSearchSelectsValleys(r.proj)
        /\ \A a, b \in RetainedMinima(r.proj) :
              a < b => b - a >= Len(r.proj) \div MinDistanceDiv

\* a region of 105 rows: three valleys, the second 10 rows below the first
\* and retained, the third 5 rows below the second and suppressed
C25_Witness ==
    \E r \in sliced :
        /\ Len(r.proj) = 105
        /\ ScanSplits(r.proj) = <<>>
        /\ Len(MinimaOf(r.proj)) = 3
        /\ CandidateSplits(r.proj) = <<MinimaOf(r.proj)[1], MinimaOf(r.proj)[2]>>
        /\ MinimaOf(r.proj)[2] - MinimaOf(r.proj)[1] = 10
        /\ MinimaOf(r.proj)[3] - MinimaOf(r.proj)[2] = 5

(***************************************************************************)
(* The skew estimate of deskew.                                            *)
(***************************************************************************)
\* the deviations of magnitude at most 45 degrees
DeviationsUpTo45 == SelectSeq(lines, LAMBDA a : -45 <= a /\ a <= 45)

\* twice the median of the values of s: the sum of the lower and the upper
\* median, the least and the greatest value with at least half of the values
\* at or below it, and at or above it
TwiceMedian(s) ==
    LET n == Len(s)
        AtMost(a) == Cardinality({k \in 1..n : s[k] <= a})
        AtLeast(a) == Cardinality({k \in 1..n : s[k] >= a})
        lower == SetMin({a \in Range(s) : 2 * AtMost(a) >= n})
        upper == SetMax({a \in Range(s) : 2 * AtLeast(a) >= n})
    IN  lower + upper

\* what deskew returns when its estimate is the median of the deviations kept
EstimateIsMedianOf(kept) ==
    /\ warped = (kept # <<>> /\ Abs(TwiceMedian(kept)) > 2 * MinSkewAngle)
    /\ warped =>
          /\ Abs(TwiceMedian(kept)) < 2 * MaxLineDeviation
          /\ deskewed = RotatedShape(preprocessed, TwiceMedian(kept))
    /\ ~warped => deskewed = preprocessed

\* C26 as stated: the skew estimate of deskew is the median of exactly the
\* deviations whose magnitude does not exceed 45 degrees; a line is
\* discarded if and only if the magnitude of its deviation exceeds 45.
C26_MedianOfDeviationsUpTo45 ==
    Deskewed => EstimateIsMedianOf(DeviationsUpTo45)

\* C26: the skew estimate of deskew is the median of exactly the deviations
\* whose magnitude is below 45 degrees; a line is discarded if and only if
\* the magnitude of its deviation is 45 degrees or more.
C26_MedianOfDeviationsBelow45 ==
    Deskewed => EstimateIsMedianOf(FilteredDeviations)

\* three lines: one at exactly 45 degrees is discarded, and the image is
\* rotated by the median of the other two, 16.5 degrees
C26_Witness ==
    /\ Deskewed
    /\ lines = <<3, 45, 30>>
    /\ preprocessed = Shape(200, 150)
    /\ warped
    /\ deskewed = RotatedShape(preprocessed, 33)

\* the slices of r are consecutive bands of the rows of its region, from
\* row 0 on
ConsecutiveFromTop(r) ==
    /\ Len(r.slices) >= 1
    /\ r.slices[1].from = 0
    /\ \A k \in 1..Len(r.slices) :
          /\ r.slices[k].from < r.slices[k].to
          /\ r.slices[k].to <= Len(r.proj)
          /\ k > 1 => r.slices[k].from = r.slices[k - 1].to

\* C28: slice_receipt_region always returns at least one slice, so that
\* detect_receipts never rejects a region because slicing produced no valid
\* slices; the slices are consecutive bands of rows in ascending order, the
\* first from row 0, each next one from the row where the previous one
\* ends, so that none overlap and rows are left out only after the last
\* slice; and each slice keeps the full width of the region.
C28_SlicesConsecutiveFromTop ==
    /\ \A r \in sliced : ConsecutiveFromTop(r)
    /\ \A k \in 1..Len(rejected_regions) :
          rejected_regions[k].reason # "slicing produced no valid slices"
    /\ \A k \in 1..Len(saved) :
          saved[k].slice >= 1 =>
             LET c == sorted_contours[saved[k].contour]
                 r == CHOOSE q \in sliced : q.contour = saved[k].contour
             IN  /\ saved[k].rect.x = c.x
                 /\ saved[k].rect.w = c.w
                 /\ saved[k].rect.y = c.y + r.slices[saved[k].slice].from
                 /\ saved[k].rect.h = r.slices[saved[k].slice].to
                                         - r.slices[saved[k].slice].from

\* a region of 40 rows cut into three slices that were all saved, the last
\* of which ends 3 rows above the bottom of the region
C28_Witness ==
    /\ pc = "loop"
    /\ idx = 2
    /\ Len(saved) = 3
    /\ \E r \in sliced :
          /\ Len(r.proj) = 40
          /\ Len(r.slices) = 3
          /\ r.slices[3].to = 37

(***************************************************************************)
(* The rejections of extract_contours and of the loop of detect_receipts   *)
(* on one page, from the extraction on.                                    *)
(***************************************************************************)

\* twice the contourArea at which area_ratio is n / d on a page of H by W
Area2At(H, W, n, d) == (2 * n * H * W) \div d

\* contours of a page of H by W pixels: two that extract_contours rejects,
\* one that only detect_receipts rejects for its small area, contours whose
\* area ratio is 0.002 and 0.95 and half a pixel under and over, the border
\* of the page, a region to slice and a region to crop
RejectionContours(H, W) ==
    { Contour(0, 1, 4, 1, 0),
      Contour(8, 0, 4, 1, 0),
      Contour(0, 0, 1, 1, 0),
      Contour(5, 5, W \div 5, H \div 5, Area2At(H, W, 2, 1000)),
      Contour(5, 6, W \div 5, H \div 5, Area2At(H, W, 2, 1000) - 1),
      Contour(0, 0, W, H, Area2At(H, W, 19, 20)),
      Contour(0, 0, W, H, Area2At(H, W, 19, 20) + 1),
      Contour(0, 0, W, H, MaxArea2(W, H)),
      Contour(0, 2, W \div 2, (7 * H) \div 10 + 1, MaxArea2(W \div 2, (7 * H) \div 10 + 1)),
      Contour(W \div 2, H \div 2, W \div 2, H \div 4, MaxArea2(W \div 2, H \div 4)) }

InitRejections ==
    /\ pc = "extract"
    /\ image_path \in InputPaths
    /\ readable = TRUE
    /\ files = {image_path}
    /\ oriented = Shape(200, 150)
    /\ img = oriented
    /\ preprocessed = oriented
    /\ deskewed = oriented
    /\ warped = FALSE
    /\ lines = <<>>
    /\ rotations = 0
    /\ found = <<>>
    /\ contours = <<>>
    /\ rejected_contours = <<>>
    /\ crops_dir = FALSE
    /\ sorted_contours = <<>>
    /\ idx = 0
    /\ slices = <<>>
    /\ slice_idx = 0
    /\ cropped_paths = <<>>
    /\ rejected_regions = <<>>
    /\ result = NoResult
    /\ raised = "none"
    /\ escaped = FALSE
    /\ entered = {}
    /\ saved = <<>>
    /\ sliced = {}
    /\ others = {}
    /\ pipeline = NoPipeline

ExtractRejecting ==
    ExtractFrom(DistinctSeqsUpTo(RejectionContours(oriented.h, oriented.w), MaxContours))

NextRejections ==
    \/ ExtractRejecting
    \/ MakeCropsDir
    \/ SortContours
    \/ ProcessContour
    \/ SaveSlice
    \/ ContourRaises
    \/ Return
    \/ StageRaises

SpecRejections == InitRejections /\ [][NextRejections]_vars

\* the entries of rejected_contours for the i-th contour findContours returned
RejectedEntriesOf(i) == SelectSeq(rejected_contours, LAMBDA e : e.index = i)

\* the reasons rejected_regions holds for the i-th contour of the loop
ReasonsFor(i) ==
    {rejected_regions[k].reason :
        k \in {j \in 1..Len(rejected_regions) : rejected_regions[j].contour = i}}

\* the loop positions that detect_receipts is done with
FinishedPositions ==
    {i \in 1..Len(sorted_contours) : i < idx \/ (pc = "done" /\ i \in entered)}

\* C22: every contour that extract_contours does not accept has one entry in
\* rejected_contours, with a non-empty list of failed criteria and with its
\* score, its area and its aspect ratio as measured; every contour the loop
\* of detect_receipts is done with and that gave no crop has an entry in
\* rejected_regions with a non-empty reason.
C22_RejectionsRecordReasons ==
    /\ \A i \in 1..Len(found) :
          ~Accepted(found[i], oriented.h, oriented.w) =>
             /\ Len(RejectedEntriesOf(i)) = 1
             /\ LET e == RejectedEntriesOf(i)[1]
                IN  /\ Len(e.reasons) >= 1
                    /\ e.score = Score(found[i], oriented.h, oriented.w)
                    /\ e.area2 = found[i].area2
                    /\ e.aspect = <<found[i].h, found[i].w>>
    /\ \A i \in FinishedPositions :
          Len(SavedFor(i)) = 0 =>
             /\ ReasonsFor(i) # {}
             /\ "" \notin ReasonsFor(i)

\* extract_contours rejected one of two contours with its four failed
\* criteria, and the loop of detect_receipts rejected the other one
C22_Witness ==
    /\ pc = "done"
    /\ Len(found) = 2
    /\ Len(rejected_contours) = 1
    /\ Len(rejected_contours[1].reasons) = 4
    /\ rejected_contours[1].score = 0
    /\ Len(sorted_contours) = 1
    /\ ReasonsFor(1) = {"area ratio too small"}
    /\ saved = <<>>

\* the area ratio of c on the oriented page lies in [0.002, 0.95]
AreaRatioInRange(c) ==
    /\ 1000 * c.area2 >= 2 * 2 * oriented.h * oriented.w
    /\ 100 * c.area2 <= 2 * 95 * oriented.h * oriented.w

\* C27: detect_receipts persists a crop for a contour only if the area ratio
\* of the contour lies in the closed range [0.002, 0.95]; a contour outside
\* that range that the loop is done with has an entry in rejected_regions
\* and no crop.
C27_CropsOnlyInAreaRange ==
    /\ \A k \in 1..Len(saved) : AreaRatioInRange(sorted_contours[saved[k].contour])
    /\ \A i \in FinishedPositions :
          ~AreaRatioInRange(sorted_contours[i]) =>
             /\ Len(SavedFor(i)) = 0
             /\ ReasonsFor(i) # {}

\* a contour whose area ratio is exactly 0.002 was cropped, and a contour
\* half a pixel over 0.95 was rejected for its area
C27_Witness ==
    /\ pc = "done"
    /\ Len(sorted_contours) = 2
    /\ \E i, j \in 1..2 :
          /\ 1000 * sorted_contours[i].area2 = 2 * 2 * oriented.h * oriented.w
          /\ Len(SavedFor(i)) = 1
          /\ SavedFor(i)[1].path \in Range(result)
          /\ 100 * sorted_contours[j].area2 > 2 * 95 * oriented.h * oriented.w
          /\ ReasonsFor(j) = {"area ratio too large"}
          /\ Len(SavedFor(j)) = 0

\* the files this invocation of detect_receipts has written
WrittenCrops == {saved[k].path : k \in {j \in 1..Len(saved) : saved[j].written}}

\* C29: every crop file an invocation of detect_receipts has written is in
\* the list the invocation returns, and an invocation that returns the
\* fallback [image_path] has written no crop file: the files on disk are
\* those that were there before.
C29_WrittenCropsAreReturned ==
    pc = "done" =>
        /\ WrittenCrops \subseteq Range(result)
        /\ (files \ {image_path}) \subseteq Range(result)
        /\ result = Fallback(image_path) =>
              /\ WrittenCrops = {}
              /\ files \subseteq {image_path}

\* the first slice of a region was written, the second raised and the
\* region was rejected; the file of the first slice is returned
C29_Witness ==
    /\ pc = "done"
    /\ \E k \in 1..Len(saved) :
          /\ saved[k].slice = 1
          /\ saved[k].written
          /\ FailedAt(saved[k].contour)
          /\ Len(SavedFor(saved[k].contour)) = 1
          /\ saved[k].path \in files
          /\ saved[k].path \in Range(result)

(***************************************************************************)
(* fix_orientation applied to its own result.                              *)
(***************************************************************************)
\* C30: fix_orientation does not rotate an input that is strictly taller
\* than wide, whatever the variances of its projections; hence on every
\* input that is not square a second application returns the result of the
\* first as it is.
C30_IdempotentUnlessSquare ==
    Oriented =>
        /\ deskewed.h > deskewed.w => (rotations = 0 /\ oriented = deskewed)
        /\ deskewed.h # deskewed.w =>
              \A v \in BOOLEAN :
                 fix_orientation(oriented, v) = [shape |-> oriented, rotations |-> 0]

\* a buffer a little wider than tall: it is turned once, and a second
\* application leaves the result alone
C30_Witness ==
    /\ Oriented
    /\ deskewed = Shape(90, 100)
    /\ rotations = 1
    /\ oriented = Shape(100, 90)
    /\ fix_orientation(oriented, TRUE).rotations = 0
    /\ fix_orientation(oriented, TRUE).shape = Shape(100, 90)

(***************************************************************************)
(* process_pdf_pipeline: the loop over the pages of an uploaded file that   *)
(* calls detect_receipts on each page.  The callee is seen from outside:   *)
(* a call returns a list of paths, possibly empty, or raises.              *)
(***************************************************************************)

MaxPages == 3
MaxReceipts == 2

\* what a call of detect_receipts does, as seen by its caller
DetectionOutcomes == {"raises", "empty", "returns"}

\* how the body of the loop over the receipts of a page ends (lines 298-571):
\* every way but the last is a rejection followed by continue
ReceiptOutcomes ==
    {"image not found", "OCR error", "insufficient OCR text", "processing error", "saved"}

\* the statistics of a page
PageStat(page_number) ==
    [page_number |-> page_number, detected |-> 0, successful |-> 0, rejected |-> 0]

\* the call of process_pdf_pipeline for an uploaded file: whether its record
\* and its file exist, its type, and the pages pdf_to_images extracts
PipelineCall(record, exists, kind, pages) ==
    [pc |-> "start", record |-> record, exists |-> exists, kind |-> kind,
     pages |-> pages, status |-> "uploaded", image_paths |-> 0, page_idx |-> 0,
     detections |-> <<>>, page_stat |-> PageStat(0), page_stats |-> <<>>,
     receipts |-> 0, receipt_idx |-> 0, all_receipts |-> 0, error |-> "none"]

\* an exception leaves process_pdf_pipeline
PipelineRaises(p, error) == [p EXCEPT !.pc = "raised", !.error = error]

\* the handler of the try block around conversion and the loop over the
\* pages: the status becomes failed and the exception is raised again
PipelineFailed(p, error) ==
    [p EXCEPT !.status = "failed", !.pc = "raised", !.error = error]

\* the next iteration of the loop over the pages
NextPage(p) ==
    [p EXCEPT !.pc = "page", !.page_idx = @ + 1,
              !.page_stats = Append(@, p.page_stat)]

\* the handler of a call of detect_receipts that raised: a rejection of
\* the page, and continue
DetectionFailedMutAbort(p) == PipelineFailed(p, "detection")

DetectionFailed(p) ==
    NextPage([p EXCEPT !.page_stat.rejected = 1])

\* lines 186-199: the record and the file are looked up before the try
\* block, then the status becomes processing
PipelineStart ==
    /\ pipeline.pc = "start"
    /\ pipeline' =
         IF ~pipeline.record THEN PipelineRaises(pipeline, "record not found")
         ELSE IF ~pipeline.exists THEN PipelineRaises(pipeline, "file not found")
         ELSE [pipeline EXCEPT !.status = "processing", !.pc = "convert"]
    /\ UNCHANGED <<pc, image_path, readable, img, preprocessed, lines, deskewed, warped,
                   oriented, rotations, found, contours, rejected_contours, crops_dir,
                   files, sorted_contours, idx, slices, slice_idx, cropped_paths,
                   rejected_regions, result, raised, escaped, entered, saved, sliced,
                   others>>

\* lines 205-243: an image is its own single page, a PDF is converted to
\* its pages, and no page or another type of file is an error
ConvertToImages ==
    /\ pipeline.pc = "convert"
    /\ pipeline' =
         IF pipeline.kind = "image"
         THEN [pipeline EXCEPT !.image_paths = 1, !.pc = "page"]
         ELSE IF pipeline.kind = "pdf"
         THEN IF pipeline.pages = 0
              THEN PipelineFailed(pipeline, "no images")
              ELSE [pipeline EXCEPT !.image_paths = pipeline.pages, !.pc = "page"]
         ELSE PipelineFailed(pipeline, "unsupported type")
    /\ UNCHANGED <<pc, image_path, readable, img, preprocessed, lines, deskewed, warped,
                   oriented, rotations, found, contours, rejected_contours, crops_dir,
                   files, sorted_contours, idx, slices, slice_idx, cropped_paths,
                   rejected_regions, result, raised, escaped, entered, saved, sliced,
                   others>>

\* lines 253-296: the page is passed to detect_receipts; a call that raises
\* or returns nothing ends the iteration, any other goes on to the receipts
DetectPage ==
    /\ pipeline.pc = "page"
    /\ pipeline.page_idx < pipeline.image_paths
    /\ \E outcome \in DetectionOutcomes, n \in 1..MaxReceipts :
          LET p == [pipeline EXCEPT !.page_stat = PageStat(pipeline.page_idx + 1),
                                    !.detections = Append(@, outcome)]
          IN  pipeline' =
                IF outcome = "raises" THEN DetectionFailed(p)
                ELSE IF outcome = "empty" THEN NextPage(p)
                ELSE [p EXCEPT !.page_stat.detected = n, !.receipts = n,
                               !.receipt_idx = 0, !.pc = "receipts"]
    /\ UNCHANGED <<pc, image_path, readable, img, preprocessed, lines, deskewed, warped,
                   oriented, rotations, found, contours, rejected_contours, crops_dir,
                   files, sorted_contours, idx, slices, slice_idx, cropped_paths,
                   rejected_regions, result, raised, escaped, entered, saved, sliced,
                   others>>

\* lines 298-571: one receipt of the page; every failure is a rejection of
\* the receipt
ProcessReceipt ==
    /\ pipeline.pc = "receipts"
    /\ pipeline.receipt_idx < pipeline.receipts
    /\ \E outcome \in ReceiptOutcomes :
          pipeline' =
             IF outcome = "saved"
             THEN [pipeline EXCEPT !.all_receipts = @ + 1,
                                   !.page_stat.successful = @ + 1,
                                   !.receipt_idx = @ + 1]
             ELSE [pipeline EXCEPT !.page_stat.rejected = @ + 1,
                                   !.receipt_idx = @ + 1]
    /\ UNCHANGED <<pc, image_path, readable, img, preprocessed, lines, deskewed, warped,
                   oriented, rotations, found, contours, rejected_contours, crops_dir,
                   files, sorted_contours, idx, slices, slice_idx, cropped_paths,
                   rejected_regions, result, raised, escaped, entered, saved, sliced,
                   others>>

\* lines 573-578: the summary of the page after its last receipt
PageSummary ==
    /\ pipeline.pc = "receipts"
    /\ pipeline.receipt_idx = pipeline.receipts
    /\ pipeline' = NextPage(pipeline)
    /\ UNCHANGED <<pc, image_path, readable, img, preprocessed, lines, deskewed, warped,
                   oriented, rotations, found, contours, rejected_contours, crops_dir,
                   files, sorted_contours, idx, slices, slice_idx, cropped_paths,
                   rejected_regions, result, raised, escaped, entered, saved, sliced,
                   others>>

\* lines 580-640: after the last page the status becomes completed and the
\* receipts and the statistics are returned
PipelineComplete ==
    /\ pipeline.pc = "page"
    /\ pipeline.page_idx = pipeline.image_paths
    /\ pipeline' = [pipeline EXCEPT !.status = "completed", !.pc = "done"]
    /\ UNCHANGED <<pc, image_path, readable, img, preprocessed, lines, deskewed, warped,
                   oriented, rotations, found, contours, rejected_contours, crops_dir,
                   files, sorted_contours, idx, slices, slice_idx, cropped_paths,
                   rejected_regions, result, raised, escaped, entered, saved, sliced,
                   others>>

InitPipeline ==
    /\ pc = "load"
    /\ image_path = CHOOSE path \in InputPaths : TRUE
    /\ readable = FALSE
    /\ img = NoImage
    /\ preprocessed = NoImage
    /\ lines = <<>>
    /\ deskewed = NoImage
    /\ warped = FALSE
    /\ oriented = NoImage
    /\ rotations = 0
    /\ found = <<>>
    /\ contours = <<>>
    /\ rejected_contours = <<>>
    /\ crops_dir = FALSE
    /\ files = {}
    /\ sorted_contours = <<>>
    /\ idx = 0
    /\ slices = <<>>
    /\ slice_idx = 0
    /\ cropped_paths = <<>>
    /\ rejected_regions = <<>>
    /\ result = NoResult
    /\ raised = "none"
    /\ escaped = FALSE
    /\ entered = {}
    /\ saved = <<>>
    /\ sliced = {}
    /\ others = {}
    /\ pipeline \in {PipelineCall(record, exists, kind, pages) :
                        record \in BOOLEAN, exists \in BOOLEAN,
                        kind \in {"image", "pdf", "other"}, pages \in 0..MaxPages}

NextPipeline ==
    \/ PipelineStart
    \/ ConvertToImages
    \/ DetectPage
    \/ ProcessReceipt
    \/ PageSummary
    \/ PipelineComplete

SpecPipeline == InitPipeline /\ [][NextPipeline]_vars

\* process_pdf_pipeline has returned or raised
PipelineEnded == pipeline.pc \in {"done", "raised"}

\* the pages whose call of detect_receipts raised
FailedDetections ==
    {i \in 1..Len(pipeline.detections) : pipeline.detections[i] = "raises"}

\* C21: a call of detect_receipts that raises on one page does not abort the
\* loop over the pages of process_pdf_pipeline: the status of the uploaded
\* file is never failed after it, and when the pipeline has ended every page
\* was passed to detect_receipts and the status is completed.
C21_DetectionFailureDoesNotAbort ==
    pipeline.pc # "idle" /\ FailedDetections # {} =>
        /\ pipeline.status # "failed"
        /\ PipelineEnded =>
              /\ Len(pipeline.detections) = pipeline.image_paths
              /\ Len(pipeline.page_stats) = pipeline.image_paths
              /\ pipeline.status = "completed"

\* detection raised on the first and on the last of three pages, the second
\* page gave a receipt that was saved, and the pipeline has returned
C21_Witness ==
    /\ pipeline.pc = "done"
    /\ pipeline.image_paths = 3
    /\ pipeline.detections = <<"raises", "returns", "raises">>
    /\ pipeline.all_receipts = 1
    /\ pipeline.status = "completed"

====
